---- MODULE Spec2Model ----
(***************************************************************************)
(* Alphaminr newsletter backend: the content-to-HTML pipeline of app.py    *)
(* (process_story_formatting, parse_content_to_html, the HTML shell), the  *)
(* POST /api/generate handler and the newsletter store.                    *)
(*                                                                         *)
(* A Python str is a sequence of one-character strings.  Literal markup    *)
(* that the parser only emits and never reads again (the static stretches  *)
(* of HTML_TEMPLATE and of the f-strings of parse_content_to_html) is one  *)
(* element per literal, a multi-character string abbreviating it such as  *)
(* "<p>" for '        <p>'; none of those literals contains "{", "[" or    *)
(* "|".  Python's None is the record None; Some(s) is the string s.        *)
(***************************************************************************)
EXTENDS Integers, Sequences, FiniteSets, TLC

VARIABLES
    keys,           \* BRAVE_SEARCH_API_KEY, ANTHROPIC_API_KEY: set or not
    proc,           \* the process: "starting", "serving", "exited"
    now,            \* datetime.now(), as a tick count
    store,          \* the rows of table newsletters
    pc,             \* per request: where api_generate stands
    content,        \* per request: content of api_generate
    html_output,    \* per request: html_output of api_generate
    newsletter_id,  \* per request: newsletter_id of api_generate
    response,       \* per request: the envelope and status returned
    inserted,       \* per request: the ids of the rows it has inserted
    table,          \* the table newsletters exists in newsletters.db
    cron_secret,    \* CRON_SECRET of the environment
    request,        \* per request: its route, X-Cron-Secret, newsletter_id
    ftext,      \* SpecFormat: the text handed to process_story_formatting
    fonce,      \* SpecFormat: process_story_formatting(ftext)
    ftwice,     \* SpecFormat: process_story_formatting(fonce)
    fpc,        \* SpecFormat: "in", "once", "twice" ("off" elsewhere)
    pcontent,   \* SpecParse: the content handed to parse_content_to_html
    presult,    \* SpecParse: its outcome
    ppc,        \* SpecParse: "in", "loop", "done" ("off" elsewhere)
    loop,       \* SpecLoop: i, current_section, buffer, sections in the loop
    plines,     \* SpecLoop: lines of parse_content_to_html
    mcp_process,    \* mcp_client.mcp_process: 0 (None) or the process started
    alive,          \* the MCP server processes that run
    stdin_pipe,     \* per process: the request lines written, not yet taken
    stdout_pipe,    \* per process: the response lines written, not yet read
    spc,            \* per request: where its pipeline stands
    process,        \* per request: process of _send_mcp_request
    searches,       \* per request: the search calls it has finished
    sent,           \* per request: the query of its search call
    received,       \* per request: what _send_mcp_request returned
    mclient,    \* SpecMarket: get_mcp_client() gives a client
    mresponse,  \* SpecMarket: what _send_mcp_request gives the two searches
    mresult,    \* SpecMarket: the outcome of fetch_market_data()
    mpc,        \* SpecMarket: "in", "done" ("off" elsewhere)
    cpc,            \* per run of cron.py: where main stands
    success,        \* per run: success of main, once assigned
    raised,         \* per run: the exception that ended the try block
    exit_status     \* per run: the exit status of the process

\* what no handler assigns
envVars == <<keys, cron_secret, request>>
serverVars == <<keys, proc, now, store, pc, content, html_output, newsletter_id,
                response, inserted, table, cron_secret, request>>
formatVars == <<ftext, fonce, ftwice, fpc>>
parseVars == <<pcontent, presult, ppc, loop, plines>>
searchVars == <<mcp_process, alive, stdin_pipe, stdout_pipe, spc, process,
                searches, sent, received>>
marketVars == <<mclient, mresponse, mresult, mpc>>
cronVars == <<cpc, success, raised, exit_status>>
vars == <<serverVars, formatVars, parseVars, searchVars, marketVars, cronVars>>

---------------------------------------------------------------------------
(* Python values *)

None == [isNone |-> TRUE, s |-> <<>>]
Some(str) == [isNone |-> FALSE, s |-> str]

\* `not x` for x a str or None
Falsy(x) == x.isNone \/ x.s = <<>>

Min(S) == CHOOSE x \in S : \A y \in S : x <= y
Max(S) == CHOOSE x \in S : \A y \in S : x >= y

---------------------------------------------------------------------------
(* Character classes *)

Upper == {"A", "B", "C", "D", "E", "F", "G", "H", "I", "J", "K", "L", "M",
          "N", "O", "P", "Q", "R", "S", "T", "U", "V", "W", "X", "Y", "Z"}
Lower == {"a", "b", "c", "d", "e", "f", "g", "h", "i", "j", "k", "l", "m",
          "n", "o", "p", "q", "r", "s", "t", "u", "v", "w", "x", "y", "z"}
Digit == {"0", "1", "2", "3", "4", "5", "6", "7", "8", "9"}
\* str.strip() and the regex class \s
Whitespace == {" ", "\t", "\n", "\r"}
\* the regex class [A-Za-z0-9\s&\.\-\']
NameChar == Upper \cup Lower \cup Digit \cup Whitespace \cup {"&", ".", "-", "'"}

---------------------------------------------------------------------------
(* str methods *)

\* s[a:b] with 1-based inclusive bounds
Slice(s, a, b) == IF a > b THEN <<>> ELSE SubSeq(s, a, b)

\* the smallest i >= from with s[i..] starting with pat, 0 when there is none
Find(s, pat, from) ==
    LET at == {i \in from..(Len(s) - Len(pat) + 1) :
                  \A k \in 1..Len(pat) : s[i + k - 1] = pat[k]}
    IN  IF at = {} THEN 0 ELSE Min(at)

\* `pat in s`
Contains(s, pat) == Find(s, pat, 1) # 0

\* s.startswith(pat)
StartsWith(s, pat) ==
    /\ Len(pat) <= Len(s)
    /\ \A k \in 1..Len(pat) : s[k] = pat[k]

\* s.strip()
Strip(s) ==
    IF \A i \in 1..Len(s) : s[i] \in Whitespace THEN <<>>
    ELSE LET first == CHOOSE i \in 1..Len(s) :
                          s[i] \notin Whitespace
                              /\ \A j \in 1..(i - 1) : s[j] \in Whitespace
             back == CHOOSE b \in 0..(Len(s) - 1) :
                         s[Len(s) - b] \notin Whitespace
                             /\ \A j \in 0..(b - 1) : s[Len(s) - j] \in Whitespace
         IN  SubSeq(s, first, Len(s) - back)

\* s.replace(pat, rep): every non-overlapping occurrence, left to right
RECURSIVE Replace(_, _, _)
Replace(s, pat, rep) ==
    LET p == Find(s, pat, 1)
    IN  IF p = 0 THEN s
        ELSE Slice(s, 1, p - 1) \o rep
                 \o Replace(Slice(s, p + Len(pat), Len(s)), pat, rep)

\* s.split(sep) for a one-character sep
RECURSIVE Split(_, _)
Split(s, sep) ==
    LET p == Find(s, <<sep>>, 1)
    IN  IF p = 0 THEN <<s>>
        ELSE <<Slice(s, 1, p - 1)>> \o Split(Slice(s, p + 1, Len(s)), sep)

---------------------------------------------------------------------------
(* process_story_formatting *)

STARS == <<"*", "*">>
U_OPEN == <<"<", "u", ">">>
U_CLOSE == <<"<", "/", "u", ">">>
STRONG_OPEN == <<"<", "s", "t", "r", "o", "n", "g", ">">>
STRONG_CLOSE == <<"<", "/", "s", "t", "r", "o", "n", "g", ">">>

\* {1,5} of the ticker group
TickerMin == 1
TickerMax == 5

\* story_content.replace('**', '').replace('<u>', '').replace('</u>', '')
StripFormatting(s) ==
    Replace(Replace(Replace(s, STARS, <<>>), U_OPEN, <<>>), U_CLOSE, <<>>)

\* ticker_pattern = ([A-Z][A-Za-z0-9\s&\.\-\']+)\s*\(([A-Z]{1,5})\) tried at
\* position i.  Group 1 is s[i..k]; \s* takes s[k+1..w]; the ticker has t
\* letters.  Each quantifier is greedy and gives back under backtracking, so
\* the match is the success with the largest k, then the largest w, then the
\* largest t.
TickLens(s, w) ==
    {t \in TickerMin..TickerMax :
        /\ w + t + 2 <= Len(s)
        /\ s[w + 1] = "("
        /\ \A p \in (w + 2)..(w + t + 1) : s[p] \in Upper
        /\ s[w + t + 2] = ")"}

WsEnds(s, k) ==
    {w \in k..Len(s) :
        /\ \A p \in (k + 1)..w : s[p] \in Whitespace
        /\ TickLens(s, w) # {}}

G1Ends(s, i) ==
    {k \in (i + 1)..Len(s) :
        /\ s[i] \in Upper
        /\ \A p \in (i + 1)..k : s[p] \in NameChar
        /\ WsEnds(s, k) # {}}

\* the match object of ticker_pattern at i (G1Ends(s, i) # {})
MatchAt(s, i) ==
    LET k == Max(G1Ends(s, i))
        w == Max(WsEnds(s, k))
        t == Max(TickLens(s, w))
    IN  [group1 |-> SubSeq(s, i, k),
         group2 |-> SubSeq(s, w + 2, w + t + 1),
         end    |-> w + t + 2]

\* replace_ticker(match) leaving the text it matched after the span
replace_ticker_Keeping(m) ==
    U_OPEN \o STRONG_OPEN \o U_OPEN
        \o Strip(m.group1) \o <<" ", "(">> \o m.group2 \o <<")">>
        \o U_CLOSE \o STRONG_CLOSE \o U_CLOSE
        \o <<" ", "(">> \o m.group2 \o <<")">>

\* replace_ticker(match)
replace_ticker(m) ==
    U_OPEN \o STRONG_OPEN \o U_OPEN
        \o Strip(m.group1) \o <<" ", "(">> \o m.group2 \o <<")">>
        \o U_CLOSE \o STRONG_CLOSE \o U_CLOSE

\* re.sub(ticker_pattern, replace_ticker, s) from position pos on: the
\* leftmost match is replaced and the scan goes on after its end
RECURSIVE ReSub(_, _)
ReSub(s, pos) ==
    LET starts == {i \in pos..Len(s) : G1Ends(s, i) # {}}
    IN  IF starts = {} THEN Slice(s, pos, Len(s))
        ELSE LET i == Min(starts)
                 m == MatchAt(s, i)
             IN  Slice(s, pos, i - 1) \o replace_ticker(m) \o ReSub(s, m.end + 1)

process_story_formatting(story_content) ==
    ReSub(StripFormatting(story_content), 1)

---------------------------------------------------------------------------
(* HTML_TEMPLATE and the section keys *)

\* the keys of the sections dict and the GAME_CHOICE section
DATE_KEY == "DATE"
INTRO_KEY == "INTRO_PARAGRAPH"
GRID_KEY == "MARKET_GRID"
CORE_KEY == "CORE_STORIES"
HORIZON_KEY == "HORIZON_SCAN_STORIES"
TRIVIA_KEY == "TRIVIA_SECTION"
GAME_KEY == "GAME_CHOICE"

\* the characters of a key
KeyText(key) ==
    CASE key = DATE_KEY -> <<"D", "A", "T", "E">>
      [] key = INTRO_KEY ->
            <<"I", "N", "T", "R", "O", "_", "P", "A", "R", "A", "G", "R", "A", "P", "H">>
      [] key = GRID_KEY -> <<"M", "A", "R", "K", "E", "T", "_", "G", "R", "I", "D">>
      [] key = CORE_KEY -> <<"C", "O", "R", "E", "_", "S", "T", "O", "R", "I", "E", "S">>
      [] key = HORIZON_KEY ->
            <<"H", "O", "R", "I", "Z", "O", "N", "_", "S", "C", "A", "N", "_",
              "S", "T", "O", "R", "I", "E", "S">>
      [] key = TRIVIA_KEY ->
            <<"T", "R", "I", "V", "I", "A", "_", "S", "E", "C", "T", "I", "O", "N">>
      [] key = GAME_KEY -> <<"G", "A", "M", "E", "_", "C", "H", "O", "I", "C", "E">>

\* the keys of the sections dict, in insertion order
SectionKeys == <<DATE_KEY, INTRO_KEY, GRID_KEY, CORE_KEY, HORIZON_KEY, TRIVIA_KEY>>

\* f'{{{key}}}'
Placeholder(key) == <<"{">> \o KeyText(key) \o <<"}">>

\* the shell: seven static stretches with the six placeholders between them
HTML_TEMPLATE ==
    <<"<!DOCTYPE html>..<div date>">> \o Placeholder(DATE_KEY)
        \o <<"</div>">> \o Placeholder(INTRO_KEY)
        \o <<"<h2>Market Snapshot</h2><table>">> \o Placeholder(GRID_KEY)
        \o <<"</table><h2>Policy Impact Analysis</h2>">> \o Placeholder(CORE_KEY)
        \o <<"<h3>On the Horizon</h3>">> \o Placeholder(HORIZON_KEY)
        \o <<"<h2>The Brain Teaser</h2><div trivia>">> \o Placeholder(TRIVIA_KEY)
        \o <<"</div><h2>Disclaimer</h2>..</html>">>

\* datetime.now().strftime("%B %d, %Y")
TODAY == <<"%B %d, %Y">>

\* the static trivia block
TRIVIA == <<"<div class='trivia-question'>..</div>">>

---------------------------------------------------------------------------
(* parse_content_to_html *)

\* the section header lines
Header(key) == KeyText(key) \o <<":">>

NoSection == "None"

\* the sections a header line opens
HeaderKeys == {INTRO_KEY, GRID_KEY, CORE_KEY, HORIZON_KEY, GAME_KEY}

\* len(parts) >= 3
GridFields == 3
\* len(buffer) == 9
GridCells == 9
\* len(story_text) > 50
StoryLen == 50

\* the state at the top of the while loop; raised is an exception in flight
InitialSections ==
    [k \in {SectionKeys[n] : n \in 1..Len(SectionKeys)} |->
        IF k = DATE_KEY THEN TODAY ELSE <<>>]

\* the loop entered with the intro as the current section
LoopStart_InIntro ==
    [i |-> 1, current_section |-> INTRO_KEY, buffer |-> <<>>,
     sections |-> InitialSections, raised |-> FALSE]

LoopStart ==
    [i |-> 1, current_section |-> NoSection, buffer |-> <<>>,
     sections |-> InitialSections, raised |-> FALSE]

\* ' '.join of the stripped lines a..b
RECURSIVE JoinStripped(_, _, _)
JoinStripped(lines, a, b) ==
    IF a > b THEN <<>>
    ELSE IF a = b THEN Strip(lines[a])
    ELSE Strip(lines[a]) \o <<" ">> \o JoinStripped(lines, a + 1, b)

\* the intro look-ahead without its stop at the MARKET_GRID header
IntroJoins_NoGridStop(l) ==
    /\ l # <<>>
    /\ ~StartsWith(l, <<"[">>)

\* the conditions of the two look-ahead loops on lines[j].strip()
IntroJoins(l) ==
    /\ l # <<>>
    /\ ~StartsWith(l, <<"[">>)
    /\ ~StartsWith(l, Header(GRID_KEY))

StoryJoins(l) ==
    /\ l # <<>>
    /\ ~StartsWith(l, <<"[">>)
    /\ l \notin {Header(HORIZON_KEY), Header(GAME_KEY)}

\* j when the look-ahead loop started at i + 1 ends
IntroRunEnd(lines, i) ==
    Min({j \in (i + 1)..(Len(lines) + 1) :
            j > Len(lines) \/ ~IntroJoins(Strip(lines[j]))})

StoryRunEnd(lines, i) ==
    Min({j \in (i + 1)..(Len(lines) + 1) :
            j > Len(lines) \/ ~StoryJoins(Strip(lines[j]))})

\* the first test on a line of the INTRO_PARAGRAPH section
IntroStarts(line) ==
    /\ line # <<>>
    /\ ~StartsWith(line, <<"[">>)
    /\ ~StartsWith(line, Header(GRID_KEY))

\* the first test on a line of the two story sections
StoryStarts(line) ==
    /\ line # <<>>
    /\ ~StartsWith(line, <<"[">>)

\* the length test with >= in place of >
StoryKept_AtLeast(story_text) ==
    story_text # <<>> /\ Len(story_text) >= StoryLen

\* if story_text and len(story_text) > 50
StoryKept(story_text) == story_text # <<>> /\ Len(story_text) > StoryLen

\* the field test with == in place of >=
HasFields_Exactly(parts) == Len(parts) = GridFields

\* if len(parts) >= 3
HasFields(parts) == Len(parts) >= GridFields

\* the buffer test one cell late
GridFull_Ten(buffer) == Len(buffer) = GridCells + 1

\* if len(buffer) == 9
GridFull(buffer) == Len(buffer) = GridCells

\* the class taken from a sign anywhere in change
ChangeClass_Anywhere(change) ==
    IF Contains(change, <<"+">>) THEN <<"change-positive">>
    ELSE IF Contains(change, <<"-">>) THEN <<"change-negative">>
    ELSE <<>>

\* change_class: by change.startswith
ChangeClass(change) ==
    IF StartsWith(change, <<"+">>) THEN <<"change-positive">>
    ELSE IF StartsWith(change, <<"-">>) THEN <<"change-negative">>
    ELSE <<>>

\* the <td> appended to buffer
Cell(parts) ==
    LET label == Strip(parts[1])
        value == Strip(parts[2])
        change == Strip(parts[3])
    IN  <<"<td><span class='market-label'>">> \o label
            \o <<"</span><span class='market-value'>">> \o value
            \o <<"</span><span class='market-change ">> \o ChangeClass(change)
            \o <<"'>">> \o change \o <<"</span></td>">>

\* ''.join(buffer[a:b]) with 1-based inclusive bounds
RECURSIVE JoinCells(_, _, _)
JoinCells(buffer, a, b) ==
    IF a > b \/ a > Len(buffer) THEN <<>>
    ELSE buffer[a] \o JoinCells(buffer, a + 1, b)

\* the rows cut column by column
TableHtml_Transposed(buffer) ==
    <<"<tr>">> \o buffer[1] \o buffer[4] \o buffer[7] \o <<"</tr><tr>">>
        \o buffer[2] \o buffer[5] \o buffer[8] \o <<"</tr><tr>">>
        \o buffer[3] \o buffer[6] \o buffer[9] \o <<"</tr>">>

TableHtml(buffer) ==
    <<"<tr>">> \o JoinCells(buffer, 1, 3) \o <<"</tr><tr>">>
        \o JoinCells(buffer, 4, 6) \o <<"</tr><tr>">>
        \o JoinCells(buffer, 7, 9) \o <<"</tr>">>

IntroHtml(paragraph_text) == <<"<p>">> \o paragraph_text \o <<"</p>">>

StoryHtml(story_text) ==
    <<"<div class='story'><p>">> \o process_story_formatting(story_text)
        \o <<"</p></div>">>

\* a section header line: the section changes; all but GAME_CHOICE: clear
\* the buffer
HeaderStep(st, line) ==
    [st EXCEPT !.current_section = CHOOSE key \in HeaderKeys : line = Header(key),
               !.buffer = IF line = Header(GAME_KEY) THEN @ ELSE <<>>,
               !.i = @ + 1]

\* the intro branch leaving i at j - 1 without the increment at the loop's end
IntroStep_NoIncrement(lines, st, line) ==
    IF IntroStarts(line)
    THEN LET j == IntroRunEnd(lines, st.i)
             paragraph_text == JoinStripped(lines, st.i, j - 1)
         IN  [st EXCEPT !.sections[INTRO_KEY] =
                            IF paragraph_text # <<>>
                            THEN @ \o IntroHtml(paragraph_text) ELSE @,
                        !.i = j - 1]
    ELSE [st EXCEPT !.i = @ + 1]

IntroStep(lines, st, line) ==
    IF IntroStarts(line)
    THEN LET j == IntroRunEnd(lines, st.i)
             paragraph_text == JoinStripped(lines, st.i, j - 1)
         IN  [st EXCEPT !.sections[INTRO_KEY] =
                            IF paragraph_text # <<>>
                            THEN @ \o IntroHtml(paragraph_text) ELSE @,
                        !.i = j]
    ELSE [st EXCEPT !.i = @ + 1]

GridStep(st, line) ==
    LET parts == Split(line, "|")
        takes == Contains(line, <<"|">>) /\ HasFields(parts)
        buffer == IF takes THEN Append(st.buffer, Cell(parts)) ELSE st.buffer
    IN  IF takes /\ Len(parts) < 3
        THEN [st EXCEPT !.raised = TRUE]
        ELSE IF GridFull(buffer)
        THEN [st EXCEPT !.sections[GRID_KEY] = TableHtml(buffer),
                        !.buffer = <<>>,
                        !.current_section = NoSection,
                        !.i = @ + 1]
        ELSE [st EXCEPT !.buffer = buffer, !.i = @ + 1]

StoryStep(lines, st, line) ==
    IF StoryStarts(line)
    THEN LET j == StoryRunEnd(lines, st.i)
             story_text == JoinStripped(lines, st.i, j - 1)
         IN  [st EXCEPT !.sections[st.current_section] =
                            IF StoryKept(story_text)
                            THEN @ \o StoryHtml(story_text) ELSE @,
                        !.i = j]
    ELSE [st EXCEPT !.i = @ + 1]

IsHeaderLine(line) == \E key \in HeaderKeys : line = Header(key)

\* one iteration of the while loop
LoopStep(lines, st) ==
    LET line == Strip(lines[st.i])
    IN  IF IsHeaderLine(line) THEN HeaderStep(st, line)
        ELSE IF st.current_section = INTRO_KEY THEN IntroStep(lines, st, line)
        ELSE IF st.current_section = GRID_KEY THEN GridStep(st, line)
        ELSE IF st.current_section \in {CORE_KEY, HORIZON_KEY}
             THEN StoryStep(lines, st, line)
        ELSE [st EXCEPT !.i = @ + 1]

\* while i < len(lines)
RECURSIVE RunLoop(_, _)
RunLoop(lines, st) ==
    IF st.raised \/ st.i > Len(lines) THEN st
    ELSE RunLoop(lines, LoopStep(lines, st))

\* for key, value in sections.items(): html = html.replace(...)
RECURSIVE FillTemplate(_, _, _)
FillTemplate(html, sections, n) ==
    IF n > Len(SectionKeys) THEN html
    ELSE FillTemplate(Replace(html, Placeholder(SectionKeys[n]),
                              sections[SectionKeys[n]]),
                      sections, n + 1)

\* the guard as "content is None"
NoContent_NoneOnly(c) == c.isNone

\* if not content: return None
NoContent(c) == Falsy(c)

\* the sections dict when the template is filled
ParsedSections(text) ==
    LET st == RunLoop(Split(text, "\n"), LoopStart)
    IN  [st EXCEPT !.sections[TRIVIA_KEY] = TRIVIA]

\* the outcome of parse_content_to_html(c), c the content: kind "return" with value
\* None or the document, or kind "raise"; sections is the dict it filled
parse_content_to_html(c) ==
    IF NoContent(c)
    THEN [kind |-> "return", value |-> None, sections |-> InitialSections]
    ELSE LET st == ParsedSections(c.s)
         IN  IF st.raised
             THEN [kind |-> "raise", value |-> None, sections |-> st.sections]
             ELSE [kind |-> "return",
                   value |-> Some(FillTemplate(HTML_TEMPLATE, st.sections, 1)),
                   sections |-> st.sections]

\* fetch_market_data at rest
MarketOff == mclient = FALSE /\ mresponse = <<>> /\ mresult = <<>> /\ mpc = "off"

\* no run of cron.py
CronOff == cpc = <<>> /\ success = <<>> /\ raised = <<>> /\ exit_status = <<>>

\* the search client at rest
SearchOff ==
    /\ mcp_process = 0
    /\ alive = {}
    /\ stdin_pipe = <<>>
    /\ stdout_pipe = <<>>
    /\ spc = <<>>
    /\ process = <<>>
    /\ searches = <<>>
    /\ sent = <<>>
    /\ received = <<>>

\* the server at rest, in the specifications of the pure functions
ServerOff ==
    /\ keys = [brave |-> FALSE, anthropic |-> FALSE]
    /\ proc = "off"
    /\ now = 0
    /\ store = {}
    /\ pc = <<>>
    /\ content = <<>>
    /\ html_output = <<>>
    /\ newsletter_id = <<>>
    /\ response = <<>>
    /\ inserted = <<>>
    /\ table = FALSE
    /\ cron_secret = <<>>
    /\ request = <<>>

---------------------------------------------------------------------------
(* SpecFormat: process_story_formatting applied to bounded texts, then to   *)
(* its own output                                                          *)

\* the longest text is MaxFmtPieces pieces of FmtPieces
MaxFmtPieces == 4

FmtPieces ==
    { <<"A", "b">>, <<" ">>, <<"(", "A", "B", ")">>, <<"x">>,
      U_OPEN, U_CLOSE, STARS }

RECURSIVE FmtTexts(_)
FmtTexts(n) ==
    IF n = 0 THEN {<<>>}
    ELSE LET shorter == FmtTexts(n - 1)
         IN  shorter \cup {t \o p : t \in shorter, p \in FmtPieces}

FormatOff == ftext = <<>> /\ fonce = <<>> /\ ftwice = <<>> /\ fpc = "off"
ParseOff ==
    /\ pcontent = None /\ presult = <<>> /\ ppc = "off"
    /\ loop = <<>> /\ plines = <<>>
InitFormat ==
    /\ ftext \in FmtTexts(MaxFmtPieces)
    /\ fonce = <<>>
    /\ ftwice = <<>>
    /\ fpc = "in"
    /\ ParseOff
    /\ ServerOff
    /\ SearchOff
    /\ MarketOff
    /\ CronOff

FormatCall ==
    /\ fpc = "in"
    /\ fonce' = process_story_formatting(ftext)
    /\ fpc' = "once"
    /\ UNCHANGED <<ftext, ftwice, parseVars, serverVars, searchVars, marketVars,
                   cronVars>>

FormatAgain ==
    /\ fpc = "once"
    /\ ftwice' = process_story_formatting(fonce)
    /\ fpc' = "twice"
    /\ UNCHANGED <<ftext, fonce, parseVars, serverVars, searchVars, marketVars,
                   cronVars>>

NextFormat == FormatCall \/ FormatAgain

SpecFormat == InitFormat /\ [][NextFormat]_vars

---------------------------------------------------------------------------
(* SpecPlain: process_story_formatting on story text without markup.       *)

\* the pieces of a plain text: a capitalised name, a blank, a ticker, a
\* small letter, a comma, a token of 6 capitals, one of small letters and a
\* whole mention
PlainPieces ==
    { <<"A", "b">>, <<" ">>, <<"(", "A", "B", ")">>, <<"x">>, <<",">>,
      <<"(", "A", "B", "C", "D", "E", "F", ")">>, <<"(", "a", "b", ")">>,
      <<"C", " ", "(", "D", ")">> }

RECURSIVE PlainTexts(_)
PlainTexts(n) ==
    IF n = 0 THEN {<<>>}
    ELSE LET shorter == PlainTexts(n - 1)
         IN  shorter \cup {t \o p : t \in shorter, p \in PlainPieces}

InitPlain ==
    /\ ftext \in PlainTexts(MaxFmtPieces)
    /\ fonce = <<>>
    /\ ftwice = <<>>
    /\ fpc = "in"
    /\ ParseOff
    /\ ServerOff
    /\ SearchOff
    /\ MarketOff
    /\ CronOff

NextPlain == FormatCall

SpecPlain == InitPlain /\ [][NextPlain]_vars

---------------------------------------------------------------------------
(* SpecParse: parse_content_to_html applied to bounded contents.  A content *)
(* is None, or free lines (up to MaxFreeLines lines of FreeLines, in any   *)
(* order), or an ordered content: the five headers in their fixed order    *)
(* with a body after each.                                                 *)

\* the longest free content
MaxFreeLines == 3
\* the most 'label|value|change' lines in a MARKET_GRID body
MaxCells == 10

Pad(n, c) == [k \in 1..n |-> c]

\* '\n'.join(lines)
RECURSIVE JoinLines(_)
JoinLines(lines) ==
    IF lines = <<>> THEN <<>>
    ELSE IF Len(lines) = 1 THEN lines[1]
    ELSE lines[1] \o <<"\n">> \o JoinLines(Tail(lines))

FreeLines ==
    { Header(INTRO_KEY), Header(GRID_KEY), Header(CORE_KEY),
      Header(HORIZON_KEY), Header(GAME_KEY),
      <<>>, <<" ">>, <<"[", "n", "o", "]">>,
      <<"a", "|", "1", "|", "+", "2">>,
      Placeholder(DATE_KEY) \o <<" ", "d">>,
      Pad(StoryLen + 1, "s") }

RECURSIVE FreeContents(_)
FreeContents(n) ==
    IF n = 0 THEN {<<>>}
    ELSE LET shorter == FreeContents(n - 1)
         IN  shorter \cup {ls \o <<l>> : ls \in shorter, l \in FreeLines}

Labels == <<"a", "b", "c", "d", "e", "f", "g", "h", "i", "j", "k", "l">>
Values == <<"1", "2", "3", "4", "5", "6", "7", "8", "9", "0", "1", "2">>
Changes == <<"+", "-", "0">>

\* the k-th well-formed grid line, 'label|value|change'
CellLine(k) ==
    <<Labels[k], "|", Values[k], "|", Changes[(k % 3) + 1], "7">>

CellLines(n) == [k \in 1..n |-> CellLine(k)]

IntroBodies ==
    { <<>>,
      << <<"i", "a">>, <<"i", "b">>, <<>>, <<"i", "c">> >>,
      << <<"[", "i", "n", "]">>, <<"i", "|", "1", "|", "+">> >>,
      << Placeholder(TRIVIA_KEY) \o <<" ", "t">> >> }

GridBodies ==
    {CellLines(n) : n \in 0..MaxCells}
        \cup { <<<<"[", "z", "|", "9", "|", "+", "9">>>> \o CellLines(GridCells - 1),
               <<<<"y", "|", "8">>>> \o CellLines(GridCells),
               <<<<"w", "|", "6", "|", "-", "|", "5">>>> \o CellLines(GridCells - 1),
               << <<"v", "|", " ", "5", " ", "|", " ", "-", "3", " ">>,
                  <<"u", "|", "4", "|", "1", "+">> >>
                   \o CellLines(GridCells - 2) }

StoryBodies(c) ==
    { <<Pad(StoryLen - 1, c)>>,
      <<Pad(StoryLen, c)>>,
      <<Pad(StoryLen + 1, c)>>,
      <<Pad(StoryLen \div 2, c), Pad(StoryLen \div 2, c)>>,
      << <<"[", c, "]">>, <<"A", "b", " ", "(", "A", "B", ")", " ">> \o Pad(StoryLen, c),
         <<>>, Pad(StoryLen + 1, c) >> }

HorizonBodies ==
    { <<>>, <<Pad(StoryLen, "h")>>,
      <<Pad(StoryLen, "h"), <<>>, <<"C", "o", " ", "(", "H", ")", " ">> \o Pad(StoryLen, "h")>> }

GameBodies == { <<>>, <<<<"g", "m">>>> }

\* the blank line before a header, or none
Gaps == { <<>>, <<<<>>>> }

OrderedContents ==
    { <<Header(INTRO_KEY)>> \o intro \o gap \o <<Header(GRID_KEY)>> \o grid
          \o gap \o <<Header(CORE_KEY)>> \o core
          \o gap \o <<Header(HORIZON_KEY)>> \o horizon
          \o gap \o <<Header(GAME_KEY)>> \o game :
        intro \in IntroBodies, grid \in GridBodies, core \in StoryBodies("c"),
        horizon \in HorizonBodies, game \in GameBodies, gap \in Gaps }

Contents ==
    {None} \cup {Some(JoinLines(ls)) :
                    ls \in FreeContents(MaxFreeLines) \cup OrderedContents}

Pending == [kind |-> "pending", value |-> None, sections |-> InitialSections]

InitParse ==
    /\ pcontent \in Contents
    /\ presult = Pending
    /\ ppc = "in"
    /\ loop = LoopStart
    /\ plines = <<>>
    /\ FormatOff
    /\ ServerOff
    /\ SearchOff
    /\ MarketOff
    /\ CronOff

ParseCall ==
    /\ ppc = "in"
    /\ presult' = parse_content_to_html(pcontent)
    /\ ppc' = "done"
    /\ UNCHANGED <<pcontent, loop, plines, formatVars, serverVars, searchVars,
                   marketVars, cronVars>>

NextParse == ParseCall

SpecParse == InitParse /\ [][NextParse]_vars

---------------------------------------------------------------------------
(* SpecLoop: parse_content_to_html one iteration of its while loop at a    *)
(* time.                                                                   *)

InitLoop == InitParse

\* if not content: return None; else lines = content.split('\n') and the
\* loop is entered
ParseEnter ==
    /\ ppc = "in"
    /\ IF NoContent(pcontent)
       THEN /\ presult' = parse_content_to_html(pcontent)
            /\ ppc' = "done"
            /\ UNCHANGED plines
       ELSE /\ plines' = Split(pcontent.s, "\n")
            /\ ppc' = "loop"
            /\ UNCHANGED presult
    /\ UNCHANGED <<pcontent, loop, formatVars, serverVars, searchVars,
                   marketVars, cronVars>>

\* while i < len(lines): one iteration
LoopIter ==
    /\ ppc = "loop"
    /\ ~loop.raised
    /\ loop.i <= Len(plines)
    /\ loop' = LoopStep(plines, loop)
    /\ UNCHANGED <<pcontent, presult, ppc, plines, formatVars, serverVars, searchVars,
                   marketVars, cronVars>>

\* the loop is left: the trivia, the template, return html
LoopExit ==
    /\ ppc = "loop"
    /\ loop.raised \/ loop.i > Len(plines)
    /\ LET sections == [loop.sections EXCEPT ![TRIVIA_KEY] = TRIVIA]
       IN  presult' =
               IF loop.raised
               THEN [kind |-> "raise", value |-> None, sections |-> sections]
               ELSE [kind |-> "return",
                     value |-> Some(FillTemplate(HTML_TEMPLATE, sections, 1)),
                     sections |-> sections]
    /\ ppc' = "done"
    /\ UNCHANGED <<pcontent, loop, plines, formatVars, serverVars, searchVars,
                   marketVars, cronVars>>

NextLoop == ParseEnter \/ LoopIter \/ LoopExit

SpecLoop == InitLoop /\ [][NextLoop]_vars

\* NextLoop can take a step exactly while the call has not returned
LoopRunning == ppc # "done"

\* the interpreter keeps executing the call: weak fairness of NextLoop,
\* WF_vars(NextLoop), with ENABLED <<NextLoop>>_vars written as LoopRunning
LiveLoop ==
    SpecLoop /\ ([]<>~LoopRunning \/ []<><<NextLoop>>_vars)

---------------------------------------------------------------------------
(* The server: module start-up, POST /api/generate and the store *)

\* the requests the server receives, handled concurrently
MaxRequests == 2
\* the values uuid.uuid4() is drawn from
MaxIds == 2
\* the last tick of the clock
MaxClock == 1

Requests == 1..MaxRequests
Ids == {ToString(k) : k \in 1..MaxIds}
NoId == ""

\* what generate_newsletter_content() hands back: None (the provider call
\* failed), the text blocks of the response each followed by "\n" (the empty
\* string when it has no text block), or an exception of the data collection
\* before its try block
TextBlocks == { <<>>, Header(INTRO_KEY) \o <<"\n", "h", "i">> }

GeneratorTexts == {<<>>} \cup {block \o <<"\n">> : block \in TextBlocks}

GeneratorOutcomes ==
    {[kind |-> "return", value |-> None], [kind |-> "raise", value |-> None]}
        \cup {[kind |-> "return", value |-> Some(txt)] : txt \in GeneratorTexts}

NoResponse ==
    [success |-> FALSE, status |-> 0, html |-> None, newsletter_id |-> NoId,
     error |-> "none"]

\* jsonify({"success": False, "error": ...}), 500
Failure(error) ==
    [success |-> FALSE, status |-> 500, html |-> None, newsletter_id |-> NoId,
     error |-> error]

\* jsonify({"success": True, "html": ..., "newsletter_id": ..., ...})
Success(html, id) ==
    [success |-> TRUE, status |-> 200, html |-> html, newsletter_id |-> id,
     error |-> "none"]

\* the row save_newsletter_to_db inserts
Row(id, created_at, html) ==
    [id |-> id, created_at |-> created_at, html_content |-> html,
     status |-> "draft", editor_notes |-> "NULL", sent_at |-> "NULL"]

\* a request: its route, its X-Cron-Secret header (None when it has none)
\* and the <newsletter_id> of its path
Post(route, header) == [route |-> route, header |-> header, id |-> NoId]
Get(route, id) == [route |-> route, header |-> None, id |-> id]

Init ==
    /\ keys \in [brave : BOOLEAN, anthropic : BOOLEAN]
    /\ proc = "starting"
    /\ now = 0
    /\ store = {}
    /\ pc = [r \in Requests |-> "idle"]
    /\ content = [r \in Requests |-> None]
    /\ html_output = [r \in Requests |-> None]
    /\ newsletter_id = [r \in Requests |-> NoId]
    /\ response = [r \in Requests |-> NoResponse]
    /\ inserted = [r \in Requests |-> {}]
    /\ table = FALSE
    /\ cron_secret = None
    /\ request = [r \in Requests |-> Post("generate", None)]
    /\ FormatOff
    /\ ParseOff
    /\ SearchOff
    /\ MarketOff
    /\ CronOff

\* module level with the check of BRAVE_SEARCH_API_KEY alone
Startup_BraveOnly ==
    /\ proc = "starting"
    /\ proc' = IF keys.brave THEN "serving" ELSE "exited"
    /\ UNCHANGED <<envVars, table, now, store, pc, content, html_output,
                   newsletter_id, response, inserted, formatVars, parseVars,
                   searchVars, marketVars, cronVars>>

\* module level: exit unless both keys are set
Startup ==
    /\ proc = "starting"
    /\ proc' = IF keys.brave /\ keys.anthropic THEN "serving" ELSE "exited"
    /\ UNCHANGED <<envVars, table, now, store, pc, content, html_output, newsletter_id,
                   response, inserted, formatVars, parseVars, searchVars, marketVars,
                   cronVars>>

Tick ==
    /\ proc = "serving"
    /\ now < MaxClock
    /\ now' = now + 1
    /\ UNCHANGED <<envVars, table, proc, store, pc, content, html_output, newsletter_id,
                   response, inserted, formatVars, parseVars, searchVars, marketVars,
                   cronVars>>

\* the handler returns: the envelope goes out
Return(r, envelope) ==
    /\ response' = [response EXCEPT ![r] = envelope]
    /\ pc' = [pc EXCEPT ![r] = "done"]

\* POST /api/generate arrives; the check of the two keys
Start(r) ==
    /\ proc = "serving"
    /\ pc[r] = "idle"
    /\ request[r].route = "generate"
    /\ IF ~keys.brave \/ ~keys.anthropic
       THEN Return(r, Failure("Missing required environment variables"))
       ELSE /\ pc' = [pc EXCEPT ![r] = "generate"]
            /\ response' = [response EXCEPT ![r] = NoResponse]
    /\ UNCHANGED <<envVars, table, proc, now, store, content, html_output, newsletter_id,
                   inserted, formatVars, parseVars, searchVars, marketVars,
                   cronVars>>

\* content = generate_newsletter_content(); if not content: ...
Generate(r) ==
    /\ pc[r] = "generate"
    /\ request[r].route = "generate"
    /\ \E out \in GeneratorOutcomes :
          IF out.kind = "raise"
          THEN /\ Return(r, Failure("str(e)"))
               /\ UNCHANGED content
          ELSE /\ content' = [content EXCEPT ![r] = out.value]
               /\ IF Falsy(out.value)
                  THEN Return(r, Failure("Failed to generate content"))
                  ELSE /\ pc' = [pc EXCEPT ![r] = "parse"]
                       /\ UNCHANGED response
    /\ UNCHANGED <<envVars, table, proc, now, store, html_output, newsletter_id, inserted,
                   formatVars, parseVars, searchVars, marketVars, cronVars>>

\* html_output = parse_content_to_html(content); if not html_output: ...
Parse(r) ==
    /\ pc[r] = "parse"
    /\ LET out == parse_content_to_html(content[r])
       IN  IF out.kind = "raise"
           THEN /\ Return(r, Failure("str(e)"))
                /\ UNCHANGED html_output
           ELSE /\ html_output' = [html_output EXCEPT ![r] = out.value]
                /\ IF Falsy(out.value)
                   THEN Return(r, Failure("Failed to parse content into HTML"))
                   ELSE /\ pc' = [pc EXCEPT ![r] = "save"]
                        /\ UNCHANGED response
    /\ UNCHANGED <<envVars, table, proc, now, store, content, newsletter_id, inserted,
                   formatVars, parseVars, searchVars, marketVars, cronVars>>

\* the save without its conn.commit(): the handler goes on, no row is kept
SaveCommits_Uncommitted(r) ==
    /\ pc[r] = "save"
    /\ \E id \in Ids : newsletter_id' = [newsletter_id EXCEPT ![r] = id]
    /\ table' = TRUE
    /\ pc' = [pc EXCEPT ![r] = "respond"]
    /\ UNCHANGED <<envVars, proc, now, store, content, html_output, response,
                   inserted, formatVars, parseVars, searchVars, marketVars,
                   cronVars>>

\* the save as INSERT OR REPLACE: a row that has the id drawn is replaced
SaveCommits_Replace(r) ==
    /\ pc[r] = "save"
    /\ \E id \in Ids :
          /\ newsletter_id' = [newsletter_id EXCEPT ![r] = id]
          /\ store' = {row \in store : row.id # id}
                          \cup {Row(id, now, html_output[r].s)}
          /\ inserted' = [inserted EXCEPT ![r] = @ \cup {id}]
    /\ table' = TRUE
    /\ pc' = [pc EXCEPT ![r] = "respond"]
    /\ UNCHANGED <<envVars, proc, now, content, html_output, response,
                   formatVars, parseVars, searchVars, marketVars, cronVars>>

\* newsletter_id = str(uuid.uuid4()); init_database();
\* save_newsletter_to_db(newsletter_id, html_output): the row is committed
SaveCommits(r) ==
    /\ pc[r] = "save"
    /\ \E id \in Ids :
          /\ \A row \in store : row.id # id
          /\ newsletter_id' = [newsletter_id EXCEPT ![r] = id]
          /\ store' = store \cup {Row(id, now, html_output[r].s)}
          /\ inserted' = [inserted EXCEPT ![r] = @ \cup {id}]
    /\ table' = TRUE
    /\ pc' = [pc EXCEPT ![r] = "respond"]
    /\ UNCHANGED <<envVars, proc, now, content, html_output, response,
                   formatVars, parseVars, searchVars, marketVars, cronVars>>

\* the save raising after its conn.commit(): the row is kept, the handler's
\* except returns
SaveRaises_AfterCommit(r) ==
    /\ pc[r] = "save"
    /\ \E id \in Ids :
          /\ \A row \in store : row.id # id
          /\ newsletter_id' = [newsletter_id EXCEPT ![r] = id]
          /\ store' = store \cup {Row(id, now, html_output[r].s)}
          /\ inserted' = [inserted EXCEPT ![r] = @ \cup {id}]
    /\ table' = TRUE
    /\ Return(r, Failure("str(e)"))
    /\ UNCHANGED <<envVars, proc, now, content, html_output, formatVars,
                   parseVars, searchVars, marketVars, cronVars>>

\* the same, when sqlite3 raises (the id is taken, the database is locked or
\* cannot be written): no row is committed, the handler's except returns and
\* the id it drew is dropped with its frame; init_database() has created the
\* table unless it is the call that raised
SaveRaises(r) ==
    /\ pc[r] = "save"
    /\ \E created \in {table, TRUE} : table' = created
    /\ Return(r, Failure("str(e)"))
    /\ UNCHANGED <<envVars, proc, now, store, content, html_output, newsletter_id,
                   inserted, formatVars, parseVars, searchVars, marketVars,
                   cronVars>>

\* return jsonify({"success": True, ...})
Respond(r) ==
    /\ pc[r] = "respond"
    /\ request[r].route = "generate"
    /\ Return(r, Success(html_output[r], newsletter_id[r]))
    /\ UNCHANGED <<envVars, table, proc, now, store, content, html_output, newsletter_id,
                   inserted, formatVars, parseVars, searchVars, marketVars,
                   cronVars>>

Next ==
    \/ Startup
    \/ Tick
    \/ \E r \in Requests :
          \/ Start(r)
          \/ Generate(r)
          \/ Parse(r)
          \/ SaveCommits(r)
          \/ SaveRaises(r)
          \/ Respond(r)

Spec == Init /\ [][Next]_vars

---------------------------------------------------------------------------
(* SpecRoutes: the routes of the application side by side: /api/generate,  *)
(* /api/cron/generate, /api/newsletters, /newsletter/<newsletter_id> and   *)
(* /health, over one newsletters.db.                                       *)

\* CRON_SECRET when it is set
SECRET == Some(<<"s">>)

\* the requests: one of each route, the cron request without an
\* X-Cron-Secret header, with the secret and with another value, the view
\* request for each id
RequestValues ==
    <<Post("generate", None), Get("list", NoId), Get("health", NoId),
      Post("cron", None), Post("cron", SECRET), Post("cron", Some(<<"x">>))>>
        \o [k \in 1..MaxIds |-> Get("view", ToString(k))]

\* the requests of a run: the slots are interchangeable, so one assignment
\* stands for all that hold the same requests
Arrivals ==
    {[r \in Requests |-> RequestValues[k[r]]] :
        k \in {f \in [Requests -> DOMAIN RequestValues] :
                  \A r \in Requests : r + 1 \in Requests => f[r] <= f[r + 1]}}

\* newsletters.db as an earlier run of the process left it: absent, or with
\* the row of one generation
PriorStores ==
    {{}, {Row("1", 0, parse_content_to_html(
                          Some(Header(INTRO_KEY) \o <<"\n", "h", "i", "\n">>)).value.s)}}

\* jsonify({"success": False, "error": "Unauthorized"}), 401
Unauthorized == [Failure("Unauthorized") EXCEPT !.status = 401]

\* jsonify({"success": True, "newsletters": ..., "count": ...})
Listing(newsletters) ==
    [success |-> TRUE, status |-> 200, newsletters |-> newsletters,
     count |-> Len(newsletters)]

\* the body and status view_newsletter returns
Page(body, status) == [body |-> body, status |-> status]
NOT_FOUND == <<"Newsletter not found">>
ERROR == <<"Error: str(e)">>

\* the results of the SELECT with ORDER BY created_at ASC
NewestFirst_Ascending(rows) ==
    {results \in [1..Cardinality(rows) -> rows] :
        /\ \A row \in rows : \E n \in DOMAIN results : results[n] = row
        /\ \A n \in 1..(Cardinality(rows) - 1) :
              results[n].created_at <= results[n + 1].created_at}

\* the results of SELECT id, created_at ... ORDER BY created_at DESC: the
\* rows in any order that puts no row before one created later
NewestFirst(rows) ==
    {results \in [1..Cardinality(rows) -> rows] :
        /\ \A row \in rows : \E n \in DOMAIN results : results[n] = row
        /\ \A n \in 1..(Cardinality(rows) - 1) :
              results[n].created_at >= results[n + 1].created_at}

\* the check of the secret made only on a request that has the header
CronStart_HeaderOnly(r) ==
    /\ proc = "serving"
    /\ pc[r] = "idle"
    /\ request[r].route = "cron"
    /\ IF /\ ~Falsy(cron_secret)
          /\ request[r].header # None
          /\ request[r].header # cron_secret
       THEN Return(r, Unauthorized)
       ELSE IF ~keys.brave \/ ~keys.anthropic
            THEN Return(r, Failure("Missing required environment variables"))
            ELSE /\ pc' = [pc EXCEPT ![r] = "generate"]
                 /\ response' = [response EXCEPT ![r] = NoResponse]
    /\ UNCHANGED <<envVars, table, proc, now, store, content, html_output,
                   newsletter_id, inserted, formatVars, parseVars, searchVars,
                   marketVars, cronVars>>

\* POST /api/cron/generate arrives: the check of the secret, then of the keys
CronStart(r) ==
    /\ proc = "serving"
    /\ pc[r] = "idle"
    /\ request[r].route = "cron"
    /\ IF ~Falsy(cron_secret) /\ request[r].header # cron_secret
       THEN Return(r, Unauthorized)
       ELSE IF ~keys.brave \/ ~keys.anthropic
            THEN Return(r, Failure("Missing required environment variables"))
            ELSE /\ pc' = [pc EXCEPT ![r] = "generate"]
                 /\ response' = [response EXCEPT ![r] = NoResponse]
    /\ UNCHANGED <<envVars, table, proc, now, store, content, html_output,
                   newsletter_id, inserted, formatVars, parseVars, searchVars,
                   marketVars, cronVars>>

\* html_output = generate_newsletter_content(); if not html_output: ...
CronGenerate(r) ==
    /\ pc[r] = "generate"
    /\ request[r].route = "cron"
    /\ \E out \in GeneratorOutcomes :
          IF out.kind = "raise"
          THEN /\ Return(r, Failure("str(e)"))
               /\ UNCHANGED html_output
          ELSE /\ html_output' = [html_output EXCEPT ![r] = out.value]
               /\ IF Falsy(out.value)
                  THEN Return(r, Failure("Failed to generate content"))
                  ELSE /\ pc' = [pc EXCEPT ![r] = "save"]
                       /\ UNCHANGED response
    /\ UNCHANGED <<envVars, table, proc, now, store, content, newsletter_id,
                   inserted, formatVars, parseVars, searchVars, marketVars,
                   cronVars>>

\* return jsonify({"success": True, "newsletter_id": ..., ...}): no "html"
CronRespond(r) ==
    /\ pc[r] = "respond"
    /\ request[r].route = "cron"
    /\ Return(r, Success(None, newsletter_id[r]))
    /\ UNCHANGED <<envVars, table, proc, now, store, content, html_output,
                   newsletter_id, inserted, formatVars, parseVars, searchVars,
                   marketVars, cronVars>>

\* GET /api/newsletters; the SELECT raises when there is no table
list_newsletters(r) ==
    /\ proc = "serving"
    /\ pc[r] = "idle"
    /\ request[r].route = "list"
    /\ IF ~table
       THEN Return(r, Failure("str(e)"))
       ELSE \E results \in NewestFirst(store) :
               Return(r, Listing([n \in DOMAIN results |->
                                     [id |-> results[n].id,
                                      created_at |-> results[n].created_at]]))
    /\ UNCHANGED <<envVars, table, proc, now, store, content, html_output,
                   newsletter_id, inserted, formatVars, parseVars, searchVars,
                   marketVars, cronVars>>

\* GET /newsletter/<newsletter_id>; the SELECT raises when there is no table
view_newsletter(r) ==
    /\ proc = "serving"
    /\ pc[r] = "idle"
    /\ request[r].route = "view"
    /\ IF ~table
       THEN Return(r, Page(ERROR, 500))
       ELSE IF \E row \in store : row.id = request[r].id
            THEN \E row \in store :
                    /\ row.id = request[r].id
                    /\ Return(r, Page(row.html_content, 200))
            ELSE Return(r, Page(NOT_FOUND, 404))
    /\ UNCHANGED <<envVars, table, proc, now, store, content, html_output,
                   newsletter_id, inserted, formatVars, parseVars, searchVars,
                   marketVars, cronVars>>

\* GET /health
health_check(r) ==
    /\ proc = "serving"
    /\ pc[r] = "idle"
    /\ request[r].route = "health"
    /\ Return(r, [status |-> 200, brave_api_key_set |-> keys.brave,
                  anthropic_api_key_set |-> keys.anthropic])
    /\ UNCHANGED <<envVars, table, proc, now, store, content, html_output,
                   newsletter_id, inserted, formatVars, parseVars, searchVars,
                   marketVars, cronVars>>

InitRoutes ==
    /\ keys \in [brave : BOOLEAN, anthropic : BOOLEAN]
    /\ proc = "starting"
    /\ now = 0
    /\ store \in PriorStores
    /\ pc = [r \in Requests |-> "idle"]
    /\ content = [r \in Requests |-> None]
    /\ html_output = [r \in Requests |-> None]
    /\ newsletter_id = [r \in Requests |-> NoId]
    /\ response = [r \in Requests |-> NoResponse]
    /\ inserted = [r \in Requests |-> {}]
    /\ table = (store # {})
    /\ cron_secret \in {None, SECRET}
    /\ request \in Arrivals
    /\ FormatOff
    /\ ParseOff
    /\ SearchOff
    /\ MarketOff
    /\ CronOff

NextRoutes ==
    \/ Startup
    \/ Tick
    \/ \E r \in Requests :
          \/ Start(r)
          \/ Generate(r)
          \/ Parse(r)
          \/ SaveCommits(r)
          \/ SaveRaises(r)
          \/ Respond(r)
          \/ CronStart(r)
          \/ CronGenerate(r)
          \/ CronRespond(r)
          \/ list_newsletters(r)
          \/ view_newsletter(r)
          \/ health_check(r)

SpecRoutes == InitRoutes /\ [][NextRoutes]_vars

---------------------------------------------------------------------------
(* SpecSearch: the generation requests and the search collaborator.  The   *)
(* requests run in threads of one process and share the module-level       *)
(* mcp_client, whose MCP server process is reached over its stdin and      *)
(* stdout pipes.  A request makes MaxSearches search calls, then the       *)
(* generation call, then returns its envelope.                             *)

\* the search calls of one generation
MaxSearches == 2
\* the MCP server processes that can be started
MaxProcesses == 2

Processes == 1..MaxProcesses
\* self.mcp_process = None
NoProcess == 0

\* the request line of the n-th search call of request r, and the line the
\* server writes in answer to a request line
Query(r, n) == [by |-> r, n |-> n]
NoQuery == [by |-> 0, n |-> 0]
ResponseTo(query) == [answers |-> query]
\* return None
NoLine == [answers |-> NoQuery]

InitSearch ==
    /\ mcp_process = NoProcess
    /\ alive = {}
    /\ stdin_pipe = [g \in Processes |-> <<>>]
    /\ stdout_pipe = [g \in Processes |-> <<>>]
    /\ spc = [r \in Requests |-> "idle"]
    /\ process = [r \in Requests |-> NoProcess]
    /\ searches = [r \in Requests |-> 0]
    /\ sent = [r \in Requests |-> NoQuery]
    /\ received = [r \in Requests |-> NoLine]
    /\ FormatOff
    /\ ParseOff
    /\ ServerOff
    /\ MarketOff
    /\ CronOff

\* a generation request arrives and reaches its first search call
Arrive(r) ==
    /\ spc[r] = "idle"
    /\ spc' = [spc EXCEPT ![r] = "search"]
    /\ UNCHANGED <<mcp_process, alive, stdin_pipe, stdout_pipe, process, searches,
                   sent, received, serverVars, formatVars, parseVars, marketVars,
                   cronVars>>

\* _send_mcp_request returns: the search call is over (web_search and
\* news_search turn None into {"results": []}); the next call, or the
\* generation call after the last
SearchReturns(r, line) ==
    /\ received' = [received EXCEPT ![r] = line]
    /\ searches' = [searches EXCEPT ![r] = @ + 1]
    /\ spc' = [spc EXCEPT ![r] = IF searches[r] + 1 < MaxSearches
                                 THEN "search" ELSE "generate"]

\* process = self._start_mcp_server(), the server running
UseServer(r) ==
    /\ spc[r] = "search"
    /\ mcp_process \in alive
    /\ process' = [process EXCEPT ![r] = mcp_process]
    /\ spc' = [spc EXCEPT ![r] = "write"]
    /\ UNCHANGED <<mcp_process, alive, stdin_pipe, stdout_pipe, searches, sent,
                   received, serverVars, formatVars, parseVars, marketVars,
                   cronVars>>

\* process = self._start_mcp_server(), no server running: the test of
\* self.mcp_process and its poll() fails and the thread goes on to Popen
NoServer(r) ==
    /\ spc[r] = "search"
    /\ mcp_process \notin alive
    /\ spc' = [spc EXCEPT ![r] = "start"]
    /\ UNCHANGED <<mcp_process, alive, stdin_pipe, stdout_pipe, process,
                   searches, sent, received, serverVars, formatVars, parseVars,
                   marketVars, cronVars>>

\* self.mcp_process = subprocess.Popen(...): a new server is started
StartServer(r) ==
    /\ spc[r] = "start"
    /\ mcp_process + 1 \in Processes
    /\ mcp_process' = mcp_process + 1
    /\ alive' = alive \cup {mcp_process + 1}
    /\ process' = [process EXCEPT ![r] = mcp_process + 1]
    /\ spc' = [spc EXCEPT ![r] = "write"]
    /\ UNCHANGED <<stdin_pipe, stdout_pipe, searches, sent, received,
                   serverVars, formatVars, parseVars, marketVars, cronVars>>

\* the same, Popen raising: if not process: return None
StartFails(r) ==
    /\ spc[r] = "start"
    /\ sent' = [sent EXCEPT ![r] = Query(r, searches[r] + 1)]
    /\ SearchReturns(r, NoLine)
    /\ UNCHANGED <<mcp_process, alive, stdin_pipe, stdout_pipe, process,
                   serverVars, formatVars, parseVars, marketVars, cronVars>>

\* process.stdin.write(json.dumps(request) + '\n'); process.stdin.flush()
Write(r) ==
    /\ spc[r] = "write"
    /\ process[r] \in alive
    /\ sent' = [sent EXCEPT ![r] = Query(r, searches[r] + 1)]
    /\ stdin_pipe' = [stdin_pipe EXCEPT ![process[r]] =
                         Append(@, Query(r, searches[r] + 1))]
    /\ received' = [received EXCEPT ![r] = NoLine]
    /\ spc' = [spc EXCEPT ![r] = "read"]
    /\ UNCHANGED <<mcp_process, alive, stdout_pipe, process, searches,
                   serverVars, formatVars, parseVars, marketVars, cronVars>>

\* the failed write followed by a second attempt at the same search call
WriteFails_Retry(r) ==
    /\ spc[r] = "write"
    /\ process[r] \notin alive
    /\ sent' = [sent EXCEPT ![r] = Query(r, searches[r] + 1)]
    /\ spc' = [spc EXCEPT ![r] = "search"]
    /\ UNCHANGED <<mcp_process, alive, stdin_pipe, stdout_pipe, process,
                   searches, received, serverVars, formatVars, parseVars,
                   marketVars, cronVars>>

\* the same, the server gone: BrokenPipeError, except: return None
WriteFails(r) ==
    /\ spc[r] = "write"
    /\ process[r] \notin alive
    /\ sent' = [sent EXCEPT ![r] = Query(r, searches[r] + 1)]
    /\ SearchReturns(r, NoLine)
    /\ UNCHANGED <<mcp_process, alive, stdin_pipe, stdout_pipe, process,
                   serverVars, formatVars, parseVars, marketVars, cronVars>>

\* response_line = process.stdout.readline(), a line in the pipe: the call
\* returns json.loads of the first line
Read(r) ==
    /\ spc[r] = "read"
    /\ stdout_pipe[process[r]] # <<>>
    /\ stdout_pipe' = [stdout_pipe EXCEPT ![process[r]] = Tail(@)]
    /\ SearchReturns(r, Head(stdout_pipe[process[r]]))
    /\ UNCHANGED <<mcp_process, alive, stdin_pipe, process, sent,
                   serverVars, formatVars, parseVars, marketVars, cronVars>>

\* the same at end of file (the pipe empty, the server gone): return None
ReadEof(r) ==
    /\ spc[r] = "read"
    /\ stdout_pipe[process[r]] = <<>>
    /\ process[r] \notin alive
    /\ SearchReturns(r, NoLine)
    /\ UNCHANGED <<mcp_process, alive, stdin_pipe, stdout_pipe, process, sent,
                   serverVars, formatVars, parseVars, marketVars, cronVars>>

\* client.messages.create(...) returns or raises (return None), and the
\* handler returns its envelope
GenerationCall(r) ==
    /\ spc[r] = "generate"
    /\ spc' = [spc EXCEPT ![r] = "done"]
    /\ UNCHANGED <<mcp_process, alive, stdin_pipe, stdout_pipe, process, searches,
                   sent, received, serverVars, formatVars, parseVars, marketVars,
                   cronVars>>

\* the MCP server takes a request line and writes its response line
McpAnswers(g) ==
    /\ g \in alive
    /\ stdin_pipe[g] # <<>>
    /\ stdin_pipe' = [stdin_pipe EXCEPT ![g] = Tail(@)]
    /\ stdout_pipe' = [stdout_pipe EXCEPT ![g] =
                          Append(@, ResponseTo(Head(stdin_pipe[g])))]
    /\ UNCHANGED <<mcp_process, alive, spc, process, searches, sent, received,
                   serverVars, formatVars, parseVars, marketVars, cronVars>>

\* the MCP server exits
McpExits(g) ==
    /\ g \in alive
    /\ alive' = alive \ {g}
    /\ UNCHANGED <<mcp_process, stdin_pipe, stdout_pipe, spc, process, searches,
                   sent, received, serverVars, formatVars, parseVars, marketVars,
                   cronVars>>

\* the steps of request r
Pipeline(r) ==
    \/ Arrive(r)
    \/ UseServer(r)
    \/ NoServer(r)
    \/ StartServer(r)
    \/ StartFails(r)
    \/ Write(r)
    \/ WriteFails(r)
    \/ Read(r)
    \/ ReadEof(r)
    \/ GenerationCall(r)

NextSearch ==
    \/ \E r \in Requests : Pipeline(r)
    \/ \E g \in Processes : McpAnswers(g) \/ McpExits(g)

SpecSearch == InitSearch /\ [][NextSearch]_vars

\* the threads of the requests are scheduled; nothing is assumed of the MCP
\* server
LiveSearch == SpecSearch /\ \A r \in Requests : WF_vars(Pipeline(r))

---------------------------------------------------------------------------
(* SpecMarket: fetch_market_data over the outcomes of its two searches.    *)
(* A JSON value is a record with its type: null, a str (s), a list         *)
(* (items) or a dict; the dicts are the response lines (with or without a  *)
(* "result"), the search results (with or without "results") and the items *)
(* of a result list (title and description, each a value or absent).       *)

\* the longest "results" list of a search result
MaxResults == 1

JNull == [type |-> "null"]
JStr(str) == [type |-> "str", s |-> str]
JList(items) == [type |-> "list", items |-> items]
Absent == [type |-> "absent"]
\* the item {"title": ..., "description": ...}
Item(title, description) ==
    [type |-> "dict", title |-> title, description |-> description]
\* the search result {"results": ...}
Result(results) == [type |-> "dict", results |-> results]
\* the response line {"jsonrpc": "2.0", "id": 1, "result": ...}
Response(result) == [type |-> "dict", result |-> result]
\* return {"results": []}
EmptyResults == Result(JList(<<>>))

\* str.lower()
ToLower(s) ==
    LET capitals == <<"A", "B", "C", "D", "E", "F", "G", "H", "I", "J", "K",
                      "L", "M", "N", "O", "P", "Q", "R", "S", "T", "U", "V",
                      "W", "X", "Y", "Z">>
        smalls == <<"a", "b", "c", "d", "e", "f", "g", "h", "i", "j", "k",
                    "l", "m", "n", "o", "p", "q", "r", "s", "t", "u", "v",
                    "w", "x", "y", "z">>
    IN  [n \in 1..Len(s) |->
            IF s[n] \in Upper
            THEN smalls[CHOOSE k \in 1..Len(capitals) : capitals[k] = s[n]]
            ELSE s[n]]

\* `if x` for a JSON value
Truthy(x) ==
    CASE x.type = "null" -> FALSE
      [] x.type = "absent" -> FALSE
      [] x.type = "str" -> x.s # <<>>
      [] x.type = "list" -> x.items # <<>>
      [] OTHER -> TRUE

\* web_search: response["result"] if response and "result" in response,
\* {"results": []} otherwise; response is None or a response line
web_search(line) ==
    IF line.type = "dict" /\ line.result.type # "absent"
    THEN line.result
    ELSE EmptyResults

\* brave_search_market_data: {"results": []} without a client, the search
\* result otherwise
brave_search_market_data(client, line) ==
    IF ~client THEN EmptyResults ELSE web_search(line)

\* x.get(...) raises AttributeError unless x is a dict
HasGet(x) == x.type = "dict"

\* what data.get("results") adds to all_results: nothing when it is absent,
\* None or empty; a str extends by its characters
Extended(data) ==
    LET results == IF data.results.type = "absent" THEN JNull
                   ELSE data.results
    IN  IF ~Truthy(results) THEN <<>>
        ELSE IF results.type = "str"
             THEN [n \in 1..Len(results.s) |-> JStr(<<results.s[n]>>)]
             ELSE results.items

\* result.get("title", "").lower() raises unless the item is a dict and the
\* value, when present, a str
TextRaises(item) ==
    \/ ~HasGet(item)
    \/ item.title.type \notin {"absent", "str"}
    \/ item.description.type \notin {"absent", "str"}

\* text = f"{title} {description}"
TextOf(item) ==
    LET title == IF item.title.type = "absent" THEN <<>> ELSE ToLower(item.title.s)
        description == IF item.description.type = "absent" THEN <<>>
                       ELSE ToLower(item.description.s)
    IN  title \o <<" ">> \o description

\* the markets in the order of required_markets
required_markets ==
    <<"S&P 500", "NASDAQ 100", "Dow Jones", "Bitcoin (BTC)", "Crude Oil (WTI)",
      "Gold", "US 10-Yr Treasury", "Ethereum (ETH)", "VIX">>

Markets == {required_markets[n] : n \in 1..Len(required_markets)}

\* the test made on text for each market
Mentions(text, market) ==
    CASE market = "S&P 500" ->
             Contains(text, <<"s", "&", "p", " ", "5", "0",
                     "0">>) \/ Contains(text, <<"s", "p", "x">>)
      [] market = "NASDAQ 100" ->
             Contains(text, <<"n", "a", "s", "d", "a",
                     "q">>) /\ Contains(text, <<"1", "0", "0">>)
      [] market = "Dow Jones" ->
             Contains(text, <<"d", "o", "w", " ", "j", "o", "n", "e",
                     "s">>) \/ Contains(text, <<"d", "o", "w">>)
      [] market = "Bitcoin (BTC)" ->
             Contains(text, <<"b", "i", "t", "c", "o", "i",
                     "n">>) \/ Contains(text, <<"b", "t", "c">>)
      [] market = "Ethereum (ETH)" ->
             Contains(text, <<"e", "t", "h", "e", "r", "e", "u",
                     "m">>) \/ Contains(text, <<"e", "t", "h">>)
      [] market = "Gold" -> Contains(text, <<"g", "o", "l", "d">>)
      [] market = "Crude Oil (WTI)" ->
             \/ Contains(text, <<"o", "i", "l">>)
             \/ Contains(text, <<"c", "r", "u", "d", "e">>)
             \/ Contains(text, <<"w", "t", "i">>)
      [] market = "VIX" ->
             Contains(text, <<"v", "i", "x">>) \/ Contains(text, <<"v",
                     "o", "l", "a", "t", "i", "l", "i", "t", "y">>)
      [] market = "US 10-Yr Treasury" ->
             \/ Contains(text, <<"t", "r", "e", "a", "s", "u", "r", "y">>)
             \/ Contains(text, <<"1", "0", "-", "y", "e", "a", "r">>)
             \/ Contains(text, <<"b", "o", "n", "d">>)

\* the keys of data: market and f"{market}_change"
DataKeys(markets) == {[market |-> m, change |-> c] : m \in markets, c \in BOOLEAN}
\* the value and change put in data
SENTINEL == "N/A"

\* fetch_market_data() given what its two searches return: kind "raise", or
\* kind "return" with data, the mentioned markets and then the missing ones
\* set to the sentinel
fetch_market_data(indices_data, commodities_data) ==
    IF ~HasGet(indices_data) \/ ~HasGet(commodities_data)
    THEN [kind |-> "raise", data |-> <<>>]
    ELSE LET all_results == Extended(indices_data) \o Extended(commodities_data)
         IN  IF \E n \in 1..Len(all_results) : TextRaises(all_results[n])
             THEN [kind |-> "raise", data |-> <<>>]
             ELSE LET found ==
                          {m \in Markets :
                              \E n \in 1..Len(all_results) :
                                  Mentions(TextOf(all_results[n]), m)}
                      missing == Markets \ found
                  IN  [kind |-> "return",
                       data |-> [k \in DataKeys(found) \cup DataKeys(missing)
                                    |-> SENTINEL]]

\* what _send_mcp_request gives a search: None, or a response line with an
\* "error" and no "result", or with a result: null, a dict without
\* "results", or a dict with a list of up to MaxResults items; the title of
\* an item is absent, null or a str that mentions no market, two or all of
\* them, its description absent, null or "Gold"
Responses ==
    LET titles ==
            {<<>>, <<"x">>,
             <<"S", "&", "P", " ", "5", "0", "0", " ", "D", "O", "W">>,
             <<"S", "P", "X", " ", "N", "a", "s", "d", "a", "q", " ", "1", "0",
               "0", " ", "B", "T", "C", " ", "E", "T", "H", " ", "g", "o", "l",
               "d", " ", "W", "T", "I", " ", "V", "I", "X", " ", "b", "o", "n",
               "d">>}
        descriptions == {<<"G", "o", "l", "d">>}
        values(strs) == {Absent, JNull} \cup {JStr(s) : s \in strs}
        items == {Item(title, description) :
                     title \in values(titles),
                     description \in values(descriptions)}
        lists[n \in 0..MaxResults] ==
            IF n = 0 THEN {<<>>}
            ELSE lists[n - 1] \cup {l \o <<i>> : l \in lists[n - 1], i \in items}
    IN  {JNull, Response(Absent), Response(JNull), Response(Result(Absent))}
            \cup {Response(Result(JList(l))) : l \in lists[MaxResults]}

InitMarket ==
    /\ mclient \in BOOLEAN
    /\ mresponse \in Responses \X Responses
    /\ mresult = <<>>
    /\ mpc = "in"
    /\ FormatOff
    /\ ParseOff
    /\ ServerOff
    /\ SearchOff
    /\ CronOff

MarketCall ==
    /\ mpc = "in"
    /\ mresult' = fetch_market_data(
                      brave_search_market_data(mclient, mresponse[1]),
                      brave_search_market_data(mclient, mresponse[2]))
    /\ mpc' = "done"
    /\ UNCHANGED <<mclient, mresponse, serverVars, formatVars, parseVars,
                   searchVars, cronVars>>

NextMarket == MarketCall

SpecMarket == InitMarket /\ [][NextMarket]_vars

---------------------------------------------------------------------------
(* SpecCron: cron.py, the script the schedule runs.  Each run is a process *)
(* of its own: main imports run_cron_generation from app, which executes   *)
(* the module level of app.py, calls it and exits with a status.           *)

\* the runs the schedule starts
MaxRuns == 2

Runs == 1..MaxRuns

\* sys.exit(status)
Exited(status) == <<status>>
NotExited == <<>>

\* the statement "from app import run_cron_generation": the module level of
\* app.py exits with status 1 unless both keys are set (and when the
\* Anthropic client cannot be made), which is a SystemExit that the except
\* clause of main does not catch; an exception of the import (the name is
\* not defined in app, a module is missing) is caught by it
ImportOutcomes ==
    IF ~keys.brave \/ ~keys.anthropic THEN {"SystemExit"}
    ELSE {"ok", "SystemExit", "ImportError"}

\* what the call run_cron_generation() gives: a true or a false value, or
\* an exception
CallOutcomes == {"True", "False", "Exception"}

\* the two branches of the test exchanged
ExitCode_Inverted(value) == IF value = "True" THEN 1 ELSE 0

\* if success: sys.exit(0) else: sys.exit(1)
ExitCode(value) == IF value = "True" THEN 0 ELSE 1

InitCron ==
    /\ keys \in [brave : BOOLEAN, anthropic : BOOLEAN]
    /\ proc = "off" /\ now = 0 /\ store = {} /\ pc = <<>> /\ content = <<>>
    /\ html_output = <<>> /\ newsletter_id = <<>> /\ response = <<>>
    /\ inserted = <<>> /\ table = FALSE /\ cron_secret = <<>> /\ request = <<>>
    /\ cpc = [k \in Runs |-> "idle"]
    /\ success = [k \in Runs |-> "unset"]
    /\ raised = [k \in Runs |-> "none"]
    /\ exit_status = [k \in Runs |-> NotExited]
    /\ FormatOff
    /\ ParseOff
    /\ SearchOff
    /\ MarketOff

\* the schedule starts the script: main()
CronScript(k) ==
    /\ cpc[k] = "idle"
    /\ cpc' = [cpc EXCEPT ![k] = "import"]
    /\ UNCHANGED <<success, raised, exit_status, serverVars, formatVars,
                   parseVars, searchVars, marketVars>>

\* the process ends with a status
ExitWith(k, status) ==
    /\ exit_status' = [exit_status EXCEPT ![k] = Exited(status)]
    /\ cpc' = [cpc EXCEPT ![k] = "exited"]

\* from app import run_cron_generation
ImportApp(k) ==
    /\ cpc[k] = "import"
    /\ \E outcome \in ImportOutcomes :
          IF outcome = "ok"
          THEN /\ cpc' = [cpc EXCEPT ![k] = "call"]
               /\ UNCHANGED <<raised, exit_status>>
          ELSE /\ raised' = [raised EXCEPT ![k] = outcome]
               /\ ExitWith(k, 1)
    /\ UNCHANGED <<success, serverVars, formatVars, parseVars, searchVars,
                   marketVars>>

\* success = run_cron_generation()
run_cron_generation(k) ==
    /\ cpc[k] = "call"
    /\ \E outcome \in CallOutcomes :
          IF outcome = "Exception"
          THEN /\ raised' = [raised EXCEPT ![k] = outcome]
               /\ ExitWith(k, 1)
               /\ UNCHANGED success
          ELSE /\ success' = [success EXCEPT ![k] = outcome]
               /\ cpc' = [cpc EXCEPT ![k] = "test"]
               /\ UNCHANGED <<raised, exit_status>>
    /\ UNCHANGED <<serverVars, formatVars, parseVars, searchVars, marketVars>>

\* if success: sys.exit(0) else: sys.exit(1); the SystemExit passes the
\* except clause
CronExit(k) ==
    /\ cpc[k] = "test"
    /\ ExitWith(k, ExitCode(success[k]))
    /\ UNCHANGED <<success, raised, serverVars, formatVars, parseVars,
                   searchVars, marketVars>>

NextCron ==
    \E k \in Runs :
        CronScript(k) \/ ImportApp(k) \/ run_cron_generation(k) \/ CronExit(k)

SpecCron == InitCron /\ [][NextCron]_vars

---------------------------------------------------------------------------
(* What the claims about parse_content_to_html speak of.  ls is the list  *)
(* of the content's lines, stripped.                                       *)

PDone == ppc = "done"
PReturned == PDone /\ presult.kind = "return"

\* the lines of the content, stripped
PLines ==
    LET ls == Split(pcontent.s, "\n") IN [n \in 1..Len(ls) |-> Strip(ls[n])]

\* the rendered fragment of a section
Fragment(key) == presult.sections[key]

ContentKeys == {INTRO_KEY, GRID_KEY, CORE_KEY, HORIZON_KEY}

HeaderLines == {Header(key) : key \in HeaderKeys}

\* where the header line of a section stands
HeaderAt(ls, key) == {h \in 1..Len(ls) : ls[h] = Header(key)}

\* all five headers, once each, in the fixed order
FiveInOrder(ls) ==
    LET hi == HeaderAt(ls, INTRO_KEY)
        hg == HeaderAt(ls, GRID_KEY)
        hc == HeaderAt(ls, CORE_KEY)
        hh == HeaderAt(ls, HORIZON_KEY)
        he == HeaderAt(ls, GAME_KEY)
    IN  /\ \A hs \in {hi, hg, hc, hh, he} : Cardinality(hs) = 1
        /\ Min(hi) < Min(hg) /\ Min(hg) < Min(hc)
        /\ Min(hc) < Min(hh) /\ Min(hh) < Min(he)

\* the section's header occurs once, and no run of text before it runs into
\* it: the content keeps the header order, or the header is the first line
\* or follows a blank line
OneSection(ls, key) ==
    LET hs == HeaderAt(ls, key)
    IN  /\ Cardinality(hs) = 1
        /\ FiveInOrder(ls) \/ Min(hs) = 1 \/ ls[Min(hs) - 1] = <<>>

\* the first and last line of the section: from its header to the next header
SectionFirst(ls, key) == Min(HeaderAt(ls, key)) + 1
SectionLast(ls, key) ==
    LET first == SectionFirst(ls, key)
    IN  Min({j \in first..Len(ls) : ls[j] \in HeaderLines} \cup {Len(ls) + 1}) - 1
SectionLines(ls, key) == Slice(ls, SectionFirst(ls, key), SectionLast(ls, key))

Pipes(l) == Cardinality({n \in 1..Len(l) : l[n] = "|"})
\* a 'label|value|change' line
WellFormed(l) == Pipes(l) = 2

\* the well-formed lines a MARKET_GRID section supplies
GridSupply(ls) == SelectSeq(SectionLines(ls, GRID_KEY), WellFormed)

\* one MARKET_GRID section, with no pipe line of more than three fields
GridScope(ls) ==
    /\ PReturned /\ ~Falsy(pcontent)
    /\ OneSection(ls, GRID_KEY)
    /\ LET sl == SectionLines(ls, GRID_KEY)
       IN  \A n \in 1..Len(sl) : Pipes(sl[n]) <= 2

---------------------------------------------------------------------------
---------------------------------------------------------------------------
\* the cell of a well-formed line: the text before the first pipe, between
\* the pipes and after the second
FieldsOf(l) ==
    LET p1 == Min({n \in 1..Len(l) : l[n] = "|"})
        p2 == Max({n \in 1..Len(l) : l[n] = "|"})
    IN  [label |-> Strip(Slice(l, 1, p1 - 1)),
         value |-> Strip(Slice(l, p1 + 1, p2 - 1)),
         change |-> Strip(Slice(l, p2 + 1, Len(l)))]

ExpectedCell(l) ==
    LET f == FieldsOf(l)
    IN  <<"<td><span class='market-label'>">> \o f.label
            \o <<"</span><span class='market-value'>">> \o f.value
            \o <<"</span><span class='market-change ">> \o ChangeClass(f.change)
            \o <<"'>">> \o f.change \o <<"</span></td>">>

ExpectedRow(supply, a) ==
    ExpectedCell(supply[a]) \o ExpectedCell(supply[a + 1])
        \o ExpectedCell(supply[a + 2])

Count(s, e) == Cardinality({n \in 1..Len(s) : s[n] = e})

(* C5: given exactly 9 well-formed lines, the grid is 3 rows of 3 cells,   *)
(* the cells in encounter order, each with the label, value and change of  *)
(* its own line.                                                           *)
C5_ThreeByThree ==
    LET ls == PLines
    IN  (GridScope(ls) /\ Len(GridSupply(ls)) = GridCells) =>
            LET supply == GridSupply(ls)
            IN  /\ Fragment(GRID_KEY) =
                       <<"<tr>">> \o ExpectedRow(supply, 1)
                           \o <<"</tr><tr>">> \o ExpectedRow(supply, 4)
                           \o <<"</tr><tr>">> \o ExpectedRow(supply, 7)
                           \o <<"</tr>">>
                /\ Count(Fragment(GRID_KEY), "<td><span class='market-label'>")
                       = GridCells

C5_Witness ==
    LET ls == PLines
    IN  /\ GridScope(ls)
        /\ Len(GridSupply(ls)) = GridCells
        /\ Fragment(GRID_KEY) # <<>>
        /\ \E n \in 1..Len(SectionLines(ls, GRID_KEY)) :
               Pipes(SectionLines(ls, GRID_KEY)[n]) = 1

---------------------------------------------------------------------------
\* a story section that is one candidate: one run of text lines after the
\* header, ended by the end of the content, a blank or bracketed line or the
\* next header, with nothing but blank and bracketed lines after it
Breaks(l) == l = <<>> \/ StartsWith(l, <<"[">>)

RunLast(ls, key) ==
    LET first == SectionFirst(ls, key)
        last == SectionLast(ls, key)
    IN  Min({j \in first..last : Breaks(ls[j])} \cup {last + 1}) - 1

OneCandidate(ls, key) ==
    /\ PReturned /\ ~Falsy(pcontent)
    /\ OneSection(ls, key)
    /\ LET first == SectionFirst(ls, key)
           last == SectionLast(ls, key)
           run == RunLast(ls, key)
       IN  /\ run >= first
           /\ \A j \in (run + 1)..last : Breaks(ls[j])
           /\ (last < Len(ls) /\ run = last)
                 => ls[last + 1] \in {Header(HORIZON_KEY), Header(GAME_KEY)}

Candidate(ls, key) == JoinStripped(ls, SectionFirst(ls, key), RunLast(ls, key))

StoryKeys == {CORE_KEY, HORIZON_KEY}

---------------------------------------------------------------------------
\* every "[" of the content is the first character of its (trimmed) line
BracketsLeadOnly(ls) ==
    \A n \in 1..Len(ls) : \A c \in 2..Len(ls[n]) : ls[n][c] # "["

(* C7: no line that starts with "[" contributes text to any rendered       *)
(* section: when the only "[" of the content are those leading a line,     *)
(* no fragment (intro, grid, core, horizon) contains a "[".                *)
C7_NoBracketText ==
    (PReturned /\ ~Falsy(pcontent) /\ BracketsLeadOnly(PLines)) =>
        \A key \in ContentKeys : Count(Fragment(key), "[") = 0

---------------------------------------------------------------------------
(* C8: for every non-empty content the returned HTML contains no           *)
(* placeholder token of the shell, also when the generator text itself     *)
(* contains one.                                                           *)
C8_NoPlaceholderLeft ==
    (PReturned /\ ~presult.value.isNone) =>
        \A n \in 1..Len(SectionKeys) :
            ~Contains(presult.value.s, Placeholder(SectionKeys[n]))

---------------------------------------------------------------------------
\* the fragment the section's own lines give when parsed alone
AloneFragment(ls, key) ==
    ParsedSections(JoinLines(<<Header(key)>> \o SectionLines(ls, key))).sections[key]

(* C9: with all five headers in the fixed order the sections are isolated: *)
(* each fragment is what the lines between its header and the next header  *)
(* give on their own, and no header line's text is in any fragment.        *)
C9_Isolated ==
    LET ls == PLines
    IN  (PReturned /\ ~Falsy(pcontent) /\ FiveInOrder(ls)) =>
            \A key \in ContentKeys :
                /\ Fragment(key) = AloneFragment(ls, key)
                /\ \A h \in HeaderLines : ~Contains(Fragment(key), h)

C9_Witness ==
    LET ls == PLines
    IN  /\ PReturned /\ ~Falsy(pcontent) /\ FiveInOrder(ls)
        /\ \A key \in ContentKeys : Fragment(key) # <<>>
        /\ ls[SectionLast(ls, INTRO_KEY)] # <<>>
        /\ ls[SectionLast(ls, CORE_KEY)] # <<>>

---------------------------------------------------------------------------
\* the static stretches of the shell, in order
Shell == SelectSeq(HTML_TEMPLATE, LAMBDA e : e \notin {"{", "}", "_"} \cup Upper)

\* the document has the whole shell, the date and the trivia block
Complete(html) ==
    /\ SelectSeq(html, LAMBDA e : e \in {Shell[n] : n \in 1..Len(Shell)}) = Shell
    /\ Count(html, TODAY[1]) >= 1
    /\ Count(html, TRIVIA[1]) >= 1

(* C10: parse_content_to_html returns None exactly when the content is     *)
(* None or empty; for every other content it does not raise and returns a  *)
(* complete document, whose sections are empty when the content has no     *)
(* header line.                                                            *)
C10_FailsSoft ==
    PDone =>
        /\ presult.kind = "return"
        /\ presult.value.isNone <=> Falsy(pcontent)
        /\ ~presult.value.isNone =>
              /\ Complete(presult.value.s)
              /\ LET ls == PLines
                 IN  (\A n \in 1..Len(ls) : ls[n] \notin HeaderLines)
                         => \A key \in ContentKeys : Fragment(key) = <<>>

C10_Witness ==
    /\ PReturned /\ pcontent = Some(<<" ">>)
    /\ ~presult.value.isNone /\ Complete(presult.value.s)

---------------------------------------------------------------------------
\* the request has its envelope
Answered(r) == pc[r] = "done"

(* C1: a success envelope (success true, html, newsletter_id) is returned  *)
(* only after the whole pipeline has run and the returned html is stored   *)
(* under the returned id; every other outcome is a failure envelope, which *)
(* carries no html and no id.                                              *)
C1_SuccessIsStored ==
    \A r \in Requests :
        Answered(r) =>
            IF response[r].success
            THEN /\ response[r].status = 200
                 /\ ~Falsy(content[r])
                 /\ response[r].html = parse_content_to_html(content[r]).value
                 /\ ~Falsy(response[r].html)
                 /\ \E row \in store :
                       /\ row.id = response[r].newsletter_id
                       /\ row.html_content = response[r].html.s
            ELSE /\ response[r].html = None
                 /\ response[r].newsletter_id = NoId

C1_Witness ==
    \E r \in Requests :
        /\ Answered(r) /\ response[r].success
        /\ \E row \in store : row.id = response[r].newsletter_id

(* C2: whenever the request ends in failure (the generator returned        *)
(* nothing, the parser returned None, or the write raised) the envelope    *)
(* has success false and status 500, and the request has added no row:     *)
(* every stored row is one another request inserted.                       *)
C2_FailureStoresNothing ==
    \A r \in Requests :
        (Answered(r) /\ ~response[r].success) =>
            /\ response[r].status = 500
            /\ inserted[r] = {}
            /\ \A row \in store : \E q \in Requests \ {r} : row.id \in inserted[q]

C2_Witness ==
    \E r \in Requests :
        /\ Answered(r) /\ ~response[r].success
        /\ ~Falsy(html_output[r])
        /\ store # {}

---------------------------------------------------------------------------
(* C11: every generation request eventually completes with its envelope,   *)
(* whatever the search collaborator does: a request that has reached a     *)
(* search call eventually has returned.                                    *)
C11_EventuallyAnswered ==
    \A r \in Requests : (spc[r] = "search") ~> (spc[r] = "done")

---------------------------------------------------------------------------
(* C12: under any interleaving of the requests, a search call that gets a  *)
(* response line gets the line written in answer to its own request line,  *)
(* never one written for another request's query.                          *)
C12_OwnResponse ==
    \A r \in Requests :
        received[r] # NoLine => received[r].answers = sent[r]

---------------------------------------------------------------------------
\* the k-th smallest member of a set of numbers
Nth(S, k) == CHOOSE x \in S : Cardinality({y \in S : y < x}) = k - 1

\* the positions of the pipes of a line
PipesAt(l) == {n \in 1..Len(l) : l[n] = "|"}

\* the change field of a line of 3 or more fields: the text after the
\* second pipe, up to the third when there is one, trimmed
ChangeOf(l) ==
    LET from == Nth(PipesAt(l), 2) + 1
        to == IF Pipes(l) > 2 THEN Nth(PipesAt(l), 3) - 1 ELSE Len(l)
    IN  Strip(Slice(l, from, to))

\* the class attributes of the cells of a grid fragment, in order: what
\* stands between "market-change " and the end of the attribute
CellClasses(fragment) ==
    LET opens == {n \in 1..Len(fragment) :
                     fragment[n] = "</span><span class='market-change "}
    IN  [k \in 1..Cardinality(opens) |->
            LET n == Nth(opens, k)
                m == Min({e \in (n + 1)..Len(fragment) : fragment[e] = "'>"})
            IN  Slice(fragment, n + 1, m - 1)]

\* the lines of the MARKET_GRID section that have 3 or more fields
GridTaken(ls) ==
    LET more(l) == Pipes(l) >= 2
    IN  SelectSeq(SectionLines(ls, GRID_KEY), more)

(* C21: every cell of the rendered grid has exactly one classification,     *)
(* given by the first character of the trimmed change field of its line:    *)
(* "change-positive" when that is "+", "change-negative" when it is "-",    *)
(* and no class otherwise (an empty field, a digit, a sign further on).     *)
C21_ClassByFirstChar ==
    LET ls == PLines
    IN  (/\ PReturned /\ ~Falsy(pcontent)
         /\ OneSection(ls, GRID_KEY)
         /\ Fragment(GRID_KEY) # <<>>) =>
            LET taken == GridTaken(ls)
                classes == CellClasses(Fragment(GRID_KEY))
            IN  /\ Len(classes) = GridCells
                /\ \A k \in 1..GridCells :
                       LET change == ChangeOf(taken[k])
                           first == IF change = <<>> THEN "" ELSE change[1]
                       IN  classes[k] =
                               CASE first = "+" -> <<"change-positive">>
                                 [] first = "-" -> <<"change-negative">>
                                 [] OTHER -> <<>>

\* a grid whose lines give all three classes, one change with blanks around
\* it and one with its sign at the end
C21_Witness ==
    LET ls == PLines
    IN  /\ PReturned /\ ~Falsy(pcontent)
        /\ OneSection(ls, GRID_KEY)
        /\ Fragment(GRID_KEY) # <<>>
        /\ LET classes == CellClasses(Fragment(GRID_KEY))
               taken == GridTaken(ls)
           IN  /\ \E k \in 1..GridCells : classes[k] = <<"change-positive">>
               /\ \E k \in 1..GridCells : classes[k] = <<>>
               /\ \E k \in 1..GridCells :
                      /\ classes[k] = <<"change-negative">>
                      /\ taken[k][Nth(PipesAt(taken[k]), 2) + 1] = " "
               /\ \E k \in 1..GridCells :
                      /\ classes[k] = <<>>
                      /\ taken[k][Len(taken[k])] = "+"

(* C13: on /api/cron/generate, when CRON_SECRET is set, a request whose     *)
(* X-Cron-Secret header is missing or differs from it is answered 401       *)
(* "Unauthorized" at once: it makes no generation call and writes no row.   *)
(* When CRON_SECRET is not set, or the header equals it, the request is     *)
(* never answered 401 and passes the checks that come before the            *)
(* generation call.                                                         *)
C13_SecretGuard ==
    \A r \in Requests :
        (request[r].route = "cron" /\ pc[r] # "idle") =>
            IF ~Falsy(cron_secret) /\ request[r].header # cron_secret
            THEN /\ pc[r] = "done"
                 /\ response[r] = Unauthorized
                 /\ html_output[r] = None
                 /\ newsletter_id[r] = NoId
                 /\ inserted[r] = {}
            ELSE /\ response[r].status # 401
                 /\ response[r].error \notin
                        {"Unauthorized", "Missing required environment variables"}

\* a request without the header has been refused while another request has
\* put a row in the store
C13_Witness ==
    /\ cron_secret = SECRET
    /\ \E r \in Requests :
           /\ request[r] = Post("cron", None)
           /\ response[r] = Unauthorized
    /\ \E r \in Requests : inserted[r] # {}

(* C14: /api/cron/generate stores what /api/generate stores for the same    *)
(* output of generate_newsletter_content(): the row a cron request inserts  *)
(* holds the document parse_content_to_html makes of that output.           *)
C14_SameArtifact ==
    \A r \in Requests :
        request[r].route = "cron" =>
            \A row \in store :
                row.id \in inserted[r] =>
                    LET out == parse_content_to_html(html_output[r])
                    IN  /\ out.kind = "return"
                        /\ ~Falsy(out.value)
                        /\ row.html_content = out.value.s

(* C15: a GET /newsletter/i that comes after /api/generate has returned     *)
(* newsletter_id i and html h returns exactly h, whatever ran in between;   *)
(* a GET /newsletter/j for an id j that no row of the store has returns     *)
(* "Newsletter not found", 404.                                             *)
C15_RoundTrip ==
    [][\A r \in Requests :
          (request[r].route = "view" /\ pc[r] = "idle" /\ pc'[r] = "done") =>
              /\ \A q \in Requests :
                     (/\ request[q].route = "generate"
                      /\ response[q].success
                      /\ response[q].newsletter_id = request[r].id)
                         => response'[r] = Page(response[q].html.s, 200)
              /\ (\A row \in store : row.id # request[r].id)
                     => response'[r] = Page(NOT_FOUND, 404)]_vars

(* C16: the store is append-only. Over every interleaving of generate,      *)
(* cron, list and view requests no step deletes a row or changes a field    *)
(* of one (id, created_at, html_content, status, editor_notes, sent_at); a  *)
(* step adds at most one row, under an id no earlier row has, with status   *)
(* 'draft' and editor_notes and sent_at NULL; and a generation answered     *)
(* with success has inserted exactly one row, the one under the id it       *)
(* returns.                                                                 *)
C16_AppendOnly ==
    /\ [][/\ store \subseteq store'
          /\ Cardinality(store' \ store) <= 1
          /\ \A row \in store' \ store :
                 /\ \A old \in store : old.id # row.id
                 /\ row.status = "draft"
                 /\ row.editor_notes = "NULL"
                 /\ row.sent_at = "NULL"]_vars
    /\ [](\A r \in Requests :
             (/\ request[r].route \in {"generate", "cron"}
              /\ pc[r] = "done"
              /\ response[r].success)
                 => /\ inserted[r] = {response[r].newsletter_id}
                    /\ Cardinality({row \in store :
                                       row.id = response[r].newsletter_id}) = 1)

\* a generation has been answered with success and the row of the earlier
\* run is still in the store beside its own
C16_Witness ==
    \E r \in Requests :
        /\ request[r].route \in {"generate", "cron"}
        /\ pc[r] = "done"
        /\ response[r].success
        /\ \E row \in store : row.id \notin inserted[r]
        /\ \E row \in store : row.id \in inserted[r]

(* C17: GET /api/newsletters returns exactly one entry, with the id and the *)
(* created_at, for every row the store holds when it runs and no other      *)
(* entry, newest first: of two adjacent entries the first is not older than *)
(* the second. A listing that fails returns no entry, and does so only      *)
(* when the store holds no row (the table is not there yet).                *)
C17_ListsEveryRow ==
    [][\A r \in Requests :
          (request[r].route = "list" /\ pc[r] = "idle" /\ pc'[r] = "done") =>
              LET entries == IF response'[r].success
                             THEN response'[r].newsletters
                             ELSE <<>>
              IN  /\ \A row \in store :
                         Cardinality({n \in DOMAIN entries :
                             /\ entries[n].id = row.id
                             /\ entries[n].created_at = row.created_at}) = 1
                  /\ \A n \in DOMAIN entries :
                         \E row \in store :
                             /\ entries[n].id = row.id
                             /\ entries[n].created_at = row.created_at
                  /\ \A n \in DOMAIN entries :
                         n + 1 \in DOMAIN entries =>
                             entries[n].created_at >= entries[n + 1].created_at
                  /\ response'[r].success => response'[r].count = Len(entries)
                  /\ ~response'[r].success => ~table]_vars

\* a listing of two rows created at different times has been returned
C17_Witness ==
    \E r \in Requests :
        /\ request[r].route = "list"
        /\ pc[r] = "done"
        /\ response[r].success
        /\ Len(response[r].newsletters) = 2
        /\ response[r].newsletters[1].created_at
               > response[r].newsletters[2].created_at

(* C18: for every search outcome fetch_market_data returns, without        *)
(* raising, a mapping that holds the value and the change of all 9 markets *)
(* of required_markets, each of them the sentinel "N/A".                   *)
C18_AllLabelsNoRaise ==
    mpc = "done" =>
        /\ mresult.kind = "return"
        /\ DOMAIN mresult.data = DataKeys(Markets)
        /\ \A k \in DataKeys(Markets) : mresult.data[k] = SENTINEL

---------------------------------------------------------------------------
(* C19: the process serves only when both BRAVE_SEARCH_API_KEY and          *)
(* ANTHROPIC_API_KEY are set; with either missing it exits at startup and   *)
(* handles no request. So whenever a request is handled both keys are set:  *)
(* /health reports both booleans true, and neither generation route         *)
(* answers "Missing required environment variables".                        *)
C19_ServesWithBothKeys ==
    /\ proc = "serving" => keys.brave /\ keys.anthropic
    /\ (proc # "starting" /\ ~(keys.brave /\ keys.anthropic)) => proc = "exited"
    /\ \A r \in Requests :
           pc[r] # "idle" =>
               /\ proc = "serving"
               /\ keys.brave /\ keys.anthropic
               /\ request[r].route = "health" =>
                      /\ response[r].brave_api_key_set
                      /\ response[r].anthropic_api_key_set
               /\ request[r].route \in {"generate", "cron"} =>
                      response[r].error # "Missing required environment variables"

\* /health has answered while a generation request has passed its key check
C19_Witness ==
    /\ \E r \in Requests :
           /\ request[r].route = "health"
           /\ pc[r] = "done"
           /\ response[r].brave_api_key_set
           /\ response[r].anthropic_api_key_set
    /\ \E r \in Requests :
           /\ request[r].route \in {"generate", "cron"}
           /\ pc[r] \notin {"idle", "done"}

\* the positions where sub occurs in s
Occurrences(s, sub) ==
    {n \in 1..(Len(s) - Len(sub) + 1) : SubSeq(s, n, n + Len(sub) - 1) = sub}

\* the length of the ticker of 1 to 5 capitals in the token that opens at
\* j, 0 when s has no such token there
TickerAt(s, j) ==
    LET lens == {n \in TickerMin..TickerMax :
                    /\ j + n + 1 <= Len(s)
                    /\ s[j] = "("
                    /\ \A p \in (j + 1)..(j + n) : s[p] \in Upper
                    /\ s[j + n + 1] = ")"}
    IN  IF lens = {} THEN 0 ELSE Min(lens)

\* the mentions "Name (TICKER)" of s, by the position of "(": a capital
\* letter, then one or more characters of a name, then the ticker token
TickerMentions(s) ==
    {j \in 1..Len(s) :
        /\ TickerAt(s, j) > 0
        /\ \E i \in 1..(j - 2) :
               /\ s[i] \in Upper
               /\ \A p \in (i + 1)..(j - 1) : s[p] \in NameChar}

SPAN_OPEN == U_OPEN \o STRONG_OPEN \o U_OPEN
SPAN_CLOSE == U_CLOSE \o STRONG_CLOSE \o U_CLOSE

(* C20: for story text without markup that holds k mentions "Name (TICKER)" *)
(* (a capitalised name, a ticker of 1 to 5 capitals) the output holds       *)
(* exactly k spans <u><strong><u>Name (TICKER)</u></strong></u> and no      *)
(* other markup; each span opens on a capital and closes after a ticker of  *)
(* 1 to 5 capitals, so a token of 6 capitals or of small letters is never   *)
(* wrapped; and every ticker token occurs in the output as often as in the  *)
(* text, once when the text has it once.                                    *)
C20_WrappedOnce ==
    fpc = "once" =>
        LET s == ftext
            out == fonce
            k == Cardinality(TickerMentions(s))
        IN  /\ Cardinality(Occurrences(out, SPAN_OPEN)) = k
            /\ Cardinality(Occurrences(out, SPAN_CLOSE)) = k
            /\ Cardinality(Occurrences(out, U_OPEN)) = 2 * k
            /\ Cardinality(Occurrences(out, U_CLOSE)) = 2 * k
            /\ \A n \in Occurrences(out, SPAN_OPEN) :
                   out[n + Len(SPAN_OPEN)] \in Upper
            /\ \A n \in Occurrences(out, SPAN_CLOSE) :
                   \E j \in 1..(n - 1) :
                       /\ TickerAt(out, j) > 0
                       /\ j + TickerAt(out, j) + 2 = n
                       /\ out[j - 1] = " "
            /\ \A j \in 1..Len(s) :
                   s[j] = "(" =>
                       LET ends == {e \in j..Len(s) : s[e] = ")"}
                           token == SubSeq(s, j, Min(ends))
                       IN  ends # {} =>
                               /\ Cardinality(Occurrences(out, token))
                                      = Cardinality(Occurrences(s, token))
                               /\ TickerAt(s, j) = 0 =>
                                      Occurrences(out, token \o SPAN_CLOSE) = {}

\* a text with two mentions, a token of 6 capitals and one of small letters
C20_Witness ==
    /\ fpc = "once"
    /\ Cardinality(TickerMentions(ftext)) = 2
    /\ Occurrences(ftext, <<"(", "a", "b", ")">>) # {}
    /\ Occurrences(ftext, <<"(", "A", "B", "C", "D", "E", "F", ")">>) # {}
    /\ Cardinality(Occurrences(fonce, SPAN_OPEN)) = 2

(* C3: process_story_formatting is idempotent: formatting its own output   *)
(* changes nothing, format(format(x)) = format(x) for every text x.        *)
C3_Idempotent == fpc = "twice" => ftwice = fonce

\* ---------------------------------------------------------------------------
\* the while loop of parse_content_to_html, one iteration at a time

\* the section a header line names
SectionOf(line) == CHOOSE key \in HeaderKeys : line = Header(key)

\* the lines an iteration passes over without making them its current line
Skipped == (loop.i + 1)..(loop'.i - 1)

\* C22: the current-section pointer changes exactly at header lines: an
\* iteration on a header line sets current_section to that header's section,
\* an iteration on any other line leaves current_section as it was, and no
\* header line is passed over without being the line of an iteration
C22_SwitchAtHeaders ==
    [][LoopIter =>
        LET line == Strip(plines[loop.i])
        IN  /\ IsHeaderLine(line) =>
                loop'.current_section = SectionOf(line)
            /\ ~IsHeaderLine(line) =>
                loop'.current_section = loop.current_section
            /\ \A k \in Skipped : ~IsHeaderLine(Strip(plines[k]))]_vars

\* C28: parse_content_to_html terminates on every input: every iteration of
\* the while loop leaves the line index strictly greater than it found it,
\* the look-ahead of the intro and story sections included, and the call
\* eventually returns
C28_IndexAdvances ==
    /\ [][LoopIter => loop'.i > loop.i]_vars
    /\ <>(ppc = "done")

\* a finished call whose intro look-ahead joined two lines into one run
C28_Witness ==
    /\ ppc = "done"
    /\ loop.i = Len(plines) + 1
    /\ \E k \in 1..(Len(plines) - 2) :
        /\ Strip(plines[k]) = Header(INTRO_KEY)
        /\ \A n \in 1..2 : IntroJoins(Strip(plines[k + n]))
        /\ ~IsHeaderLine(Strip(plines[k + 1]))
    /\ loop.sections[INTRO_KEY] # <<>>

\* ---------------------------------------------------------------------------
\* the cell of a line of 3 or more fields: its first three fields, trimmed
FirstThree(l) ==
    LET p1 == Nth(PipesAt(l), 1)
        p2 == Nth(PipesAt(l), 2)
        change == ChangeOf(l)
    IN  <<"<td><span class='market-label'>">> \o Strip(Slice(l, 1, p1 - 1))
            \o <<"</span><span class='market-value'>">>
            \o Strip(Slice(l, p1 + 1, p2 - 1))
            \o <<"</span><span class='market-change ">> \o ChangeClass(change)
            \o <<"'>">> \o change \o <<"</span></td>">>

\* the grid rendered from the first nine lines of a supply
GridOf(supply, cell(_)) ==
    <<"<tr>">> \o cell(supply[1]) \o cell(supply[2]) \o cell(supply[3])
        \o <<"</tr><tr>">> \o cell(supply[4]) \o cell(supply[5])
        \o cell(supply[6])
        \o <<"</tr><tr>">> \o cell(supply[7]) \o cell(supply[8])
        \o cell(supply[9]) \o <<"</tr>">>

C25_NoHeaderNoFragment ==
    LET ls == PLines
    IN  (PReturned /\ ~Falsy(pcontent)) =>
            \A key \in ContentKeys :
                HeaderAt(ls, key) = {} => Fragment(key) = <<>>

\* a content without the intro and horizon headers that holds text lines
\* and renders a core story
C25_Witness ==
    LET ls == PLines
    IN  /\ PReturned /\ ~Falsy(pcontent)
        /\ HeaderAt(ls, INTRO_KEY) = {} /\ HeaderAt(ls, HORIZON_KEY) = {}
        /\ Fragment(CORE_KEY) # <<>>
        /\ ls[1] \notin HeaderLines /\ IntroStarts(ls[1])

\* ---------------------------------------------------------------------------
\* the shell with every placeholder replaced, at its own position, by the
\* fragment of its section
FilledShell(sections) ==
    <<"<!DOCTYPE html>..<div date>">> \o sections[DATE_KEY]
        \o <<"</div>">> \o sections[INTRO_KEY]
        \o <<"<h2>Market Snapshot</h2><table>">> \o sections[GRID_KEY]
        \o <<"</table><h2>Policy Impact Analysis</h2>">> \o sections[CORE_KEY]
        \o <<"<h3>On the Horizon</h3>">> \o sections[HORIZON_KEY]
        \o <<"<h2>The Brain Teaser</h2><div trivia>">> \o sections[TRIVIA_KEY]
        \o <<"</div><h2>Disclaimer</h2>..</html>">>

(* C27: the returned document is the shell with each section's fragment at  *)
(* the position of that section's own placeholder and nowhere else: text    *)
(* that came from the generator is never treated as a placeholder, so a     *)
(* fragment holding the text of another placeholder token stays as it is.   *)
C27_OwnPlaceholderOnly ==
    (PReturned /\ ~presult.value.isNone) =>
        presult.value.s = FilledShell(presult.sections)

\* ---------------------------------------------------------------------------
(* C23: a request whose generator returned no text (the empty string) ends  *)
(* in the failure envelope with the parse-failure message, which is not the *)
(* message of a failed provider call (the generator returned None); and no  *)
(* content that has text ends in either of the two messages.                *)
C23_ParseFailureDistinct ==
    \A r \in Requests :
        Answered(r) =>
            /\ content[r] = Some(<<>>) =>
                   response[r] = Failure("Failed to parse content into HTML")
            /\ ~Falsy(content[r]) =>
                   response[r].error \notin
                       {"Failed to generate content",
                        "Failed to parse content into HTML"}

\* ---------------------------------------------------------------------------
(* C30: the search client keeps at most one live MCP server process: under  *)
(* any interleaving of the search calls of the requests a server is started *)
(* only when none started before is still running, and a running server is  *)
(* the one every later call uses.                                           *)
C30_OneLiveServer ==
    /\ Cardinality(alive) <= 1
    /\ \A r \in Requests :
           (spc[r] \in {"write", "read"} /\ process[r] \in alive) =>
               process[r] = mcp_process

\* ---------------------------------------------------------------------------
\* the request lines a step puts on the stdin pipe of server g
Written(g) ==
    IF Len(stdin_pipe'[g]) > Len(stdin_pipe[g])
    THEN {stdin_pipe'[g][Len(stdin_pipe'[g])]}
    ELSE {}

(* C26: there is no retry: within one generation run a search query is put  *)
(* on the wire at most once and the calls are made in order, each once; a   *)
(* call that failed counts as made (no data) and the run goes on to the     *)
(* next call; the generation call is made once, after the last search, and  *)
(* the run is over after it.                                                *)
C26_NoRetry ==
    [][/\ \A g \in Processes : \A q \in Written(g) :
              /\ sent[q.by] # q
              /\ q.n = searches[q.by] + 1
       /\ \A r \in Requests :
              /\ searches'[r] \in {searches[r], searches[r] + 1}
              /\ (sent'[r] # sent[r] /\ searches'[r] = searches[r] + 1) =>
                     received'[r] = NoLine
              /\ spc[r] = "generate" => spc'[r] \in {"generate", "done"}
              /\ spc[r] = "done" => spc'[r] = "done"
              /\ spc'[r] = "generate" => searches'[r] = MaxSearches]_vars

\* a run that is over, whose last search call went to a server and failed
C26_Witness ==
    \E r \in Requests :
        /\ spc[r] = "done"
        /\ searches[r] = MaxSearches
        /\ sent[r] = Query(r, MaxSearches)
        /\ received[r] = NoLine
        /\ process[r] # NoProcess

\* ---------------------------------------------------------------------------
(* C29: a run of the cron script exits with status 0 exactly when           *)
(* run_cron_generation was called and returned a true value, and with       *)
(* status 1 when it returned a false value and when an exception ended the  *)
(* run, the failure of the import from app included.                        *)
C29_ExitStatus ==
    \A k \in Runs :
        cpc[k] = "exited" =>
            /\ exit_status[k] \in {Exited(0), Exited(1)}
            /\ exit_status[k] = Exited(0) <=>
                   (success[k] = "True" /\ raised[k] = "none")
            /\ (success[k] = "False" \/ raised[k] # "none") =>
                   exit_status[k] = Exited(1)

\* one run has exited 0 after a successful generation, the other 1 after
\* the import failed
C29_Witness ==
    \E k, l \in Runs :
        /\ cpc[k] = "exited" /\ success[k] = "True"
        /\ exit_status[k] = Exited(0)
        /\ cpc[l] = "exited" /\ raised[l] = "ImportError"
        /\ exit_status[l] = Exited(1)

====
